---- MODULE Spec2Model ----
(***************************************************************************)
(* A model of the notification bridge: the open-queue poller               *)
(* (bot/utils/polling.py, bot/utils/sd_state.py), the escalation engine    *)
(* (bot/utils/escalation.py) and the admin-alert rate limits               *)
(* (bot/services/observability.py, bot/utils/admin_alerts.py).             *)
(*                                                                         *)
(* Optional values are sequences of length at most one: None is <<>> and   *)
(* a present value x is <<x>>.  Raw Python values that the code passes     *)
(* through int(...) are records [kind, v]: a Python int v, the decimal     *)
(* string of v, a non-numeric string, or a missing value.                  *)
(***************************************************************************)
EXTENDS Integers, Sequences, FiniteSets, TLC

VARIABLES
    \* ---- poller: PollingState and the locals of polling_open_queue_loop
    pc,                     \* position of the poller task
    stop_event,             \* asyncio.Event of main()
    runs, failures, consecutive_failures, last_error,
    last_sent_snapshot, last_sent_ids, last_sent_count, last_sent_at,
    interval_s,             \* local interval_s
    res_items,              \* res.items of the iteration's fetch
    notify_text,            \* the text last passed to notify
    iter_result,            \* how the last iteration ended
    prev_interval,          \* interval_s when the iteration started
    \* ---- escalation engine: EscalationManager and its state store
    seen_at, escalated_at,  \* EscalationState
    store,                  \* the blob under store_key (None when never saved)
    has_store,              \* self._store is not None
    rules,                  \* self._rules
    now,                    \* time.time()
    esc_op,                 \* the last operation of the engine
    call_at,                \* the time of the last process call
    call_ids,               \* current_ids of the last process call
    call_match,             \* the ids of the last call whose item matched a rule
    ret_ids,                \* the ids returned by the last process call
    ret_items,              \* the tickets returned by the last process call
    first_seen_h,           \* id -> time of the first call of its dwell interval
    ret_inst_h,             \* id -> returns in this interval by this instance
    ret_total_h,            \* id -> returns in this interval by all instances
    ret_ever_h,             \* id -> returns over all its intervals
    \* ---- observability: the rate-limit fields and what was sent
    last_alert_at,          \* kind -> Optional time (last_*_alert_at)
    skipped,                \* kind -> *_alerts_skipped_rate_limit
    tickets_without_destination_total, last_ticket_without_destination_at,
    web_interval,           \* self._web_alert_min_interval_s
    web_cache,              \* WebClient._cache: Optional <<ts, health ok, ready ok>>
    admin_dest,             \* parse_admin_alert_dest_from_env() is not None
    obs_op,                 \* the outcome of the last alert attempt
    obs_attempts,           \* alert attempts made so far
    sent_h,                 \* kind -> alerts handed to send_message
    last_sent_h,            \* kind -> Optional time of the last such alert
    gap_h,                  \* kind -> Optional smallest gap between two alerts
    suppressed_h,           \* kind -> attempts that met a closed window
    checks_h,               \* check_web invocations of this minute/run
    \* ---- config store (web): the bot_config row and its writers
    cfg_row,                \* Optional [version, config_json]: the row id = 1
    cfg_bodies,             \* history: version -> the config_json that version had
    cfg_lock,               \* Optional writer holding the row's lock
    cfg_tx,                 \* writer -> its open transaction, if any
    cfg_op,                 \* the last operation and its outcome
    cfg_read,               \* the result of the last read_config
    cfg_writes_h,           \* the committed writes, in commit order
    runtime_routing,        \* RuntimeConfig.routing of the bot
    server_routing,         \* the routing of the config the web service serves
    ntf_op,                 \* the last operation of the notification service
    ntf_items,              \* the items of the last notify_main
    ntf_before_h,           \* the bot's routing when that notify_main began
    ntf_refresh_ok,         \* whether its refresh got the server's config
    ntf_dests,              \* the destinations it computed
    ntf_attempts,           \* the sends of the queue message it attempted
    ntf_nodest_calls,       \* its calls of handle_no_destination
    ntf_forbidden,          \* the destinations it delegated as forbidden
    ntf_raised,             \* the exception it raised, "" when it returned
    \* ---- make_ids_snapshot_hash applied to two item lists
    snap_op,                \* "pair" once the two snapshots were computed
    snap_items,             \* <<items, other items>>
    snap_res,               \* <<(hash, ids) of items, (hash, ids) of the other items>>
    \* ---- the environment the admin destination is parsed from
    env_admin_alert,        \* ADMIN_ALERT_CHAT_ID, ADMIN_ALERT_THREAD_ID
    env_alert,              \* ALERT_CHAT_ID, ALERT_THREAD_ID
    alert_dest_h,           \* Optional destination of the last alert handed to the chat
    \* ---- the web service's GET /ready
    rdy_env,                \* os.environ: the variables /ready reads
    rdy_op,                 \* "ready" once the request was served
    rdy_resp,               \* the response: payload and status code
    \* ---- the bot's WebClient, called by several coroutines
    wc_cache,               \* WebClient._cache: Optional <<ts, health, ready>>
    wc_lock,                \* WebClient._lock: Optional caller holding it
    wc_waiters,             \* the callers waiting for the lock, first come first
    wc_call,                \* caller -> its call of check_health_ready, if any
    wc_ret,                 \* Optional: the last call that returned, and what it returned
    wc_probe_h,             \* history: Optional outcomes of the last probe round
    wc_h,                   \* history: calls made, probe rounds started, arrivals
    \* ---- a function called on its own
    call_args,              \* the arguments of the call
    call_op,                \* the function called, "none" before the call
    call_ret,               \* what the call returned and did
    \* ---- invocations of the alert paths that run concurrently
    obs_tasks               \* task -> where its invocation stands, and of which path

pollVars == <<pc, stop_event, runs, failures, consecutive_failures, last_error,
              last_sent_snapshot, last_sent_ids, last_sent_count, last_sent_at,
              interval_s, res_items, notify_text, iter_result, prev_interval>>
escVars == <<seen_at, escalated_at, store, has_store, rules, esc_op, call_at,
             call_ids, call_match, ret_ids, ret_items, first_seen_h, ret_inst_h,
             ret_total_h, ret_ever_h>>
obsVars == <<last_alert_at, skipped, tickets_without_destination_total,
             last_ticket_without_destination_at, web_interval, web_cache,
             admin_dest, obs_op, obs_attempts, sent_h, last_sent_h, gap_h,
             suppressed_h, checks_h>>
cfgVars == <<cfg_row, cfg_bodies, cfg_lock, cfg_tx, cfg_op, cfg_read, cfg_writes_h>>
\* the subsystems besides the poller, the escalation engine and observability
ntfVars == <<runtime_routing, server_routing, ntf_op, ntf_items, ntf_before_h,
             ntf_refresh_ok, ntf_dests, ntf_attempts, ntf_nodest_calls,
             ntf_forbidden, ntf_raised>>
snapVars == <<snap_op, snap_items, snap_res>>
\* the functions and services checked on their own
envVars == <<env_admin_alert, env_alert, alert_dest_h>>
rdyVars == <<rdy_env, rdy_op, rdy_resp>>
wcVars == <<wc_cache, wc_lock, wc_waiters, wc_call, wc_ret, wc_probe_h, wc_h>>
callVars == <<call_args, call_op, call_ret>>
taskVars == <<obs_tasks>>
moreVars == <<snapVars, envVars, rdyVars, wcVars, callVars, taskVars>>
extVars == <<cfgVars, ntfVars, moreVars>>
vars == <<pollVars, escVars, obsVars, extVars, now>>

----------------------------------------------------------------------------
(* Bounds of the model *)

MaxRuns == 4
MaxItems == 2
MaxTime == 4
MaxAttempts == 3

(* Program constants *)

BaseIntervalS == 30
MaxBackoffS == 300

----------------------------------------------------------------------------
(* Values *)

None == <<>>
Some(x) == <<x>>

PyInt(n) == [kind |-> "int", v |-> n]
PyNumStr(n) == [kind |-> "numstr", v |-> n]
PyBadStr == [kind |-> "badstr", v |-> 0]
PyMissing == [kind |-> "none", v |-> 0]

Min(a, b) == IF a <= b THEN a ELSE b
Max(a, b) == IF a >= b THEN a ELSE b

SeqRange(s) == {s[i] : i \in DOMAIN s}

\* sd_state._to_int: int(value), None when int() raises
ToInt(value) ==
    IF value.kind \in {"int", "numstr"} THEN Some(value.v) ELSE None

ValidIdAllowingZero(value) == ToInt(value) # None /\ ToInt(value)[1] >= 0

\* tid is None or tid <= 0: the item is skipped
ValidId(value) == ToInt(value) # None /\ ToInt(value)[1] > 0

\* sorted(ids_set): the ascending list of a set of integers
RECURSIVE SortedSeq(_)
SortedSeq(S) ==
    IF S = {} THEN <<>>
    ELSE LET m == CHOOSE x \in S : \A y \in S : x <= y
         IN <<m>> \o SortedSeq(S \ {m})

\* hashlib.sha256(payload).hexdigest(): the digest is modelled as a
\* collision-free tag of the payload it was computed from
Sha256(payload) == [sha256 |-> payload]

\* json.dumps(ids, separators=(",", ":")): the text of a list of ints
\* determines the list and is determined by it
JsonDumps(ids) == [json |-> ids]

MakeIdsSnapshotHashWithNames(items) ==
    LET idx == {i \in DOMAIN items : ValidId(items[i].Id)}
        ids == SortedSeq({ToInt(items[i].Id)[1] : i \in idx})
        named == {<<ToInt(items[i].Id)[1], items[i].Name>> : i \in idx}
    IN <<Sha256(JsonDumps(<<ids, named>>)), ids>>

MakeIdsSnapshotHash(items) ==
    LET ids_set == {ToInt(items[i].Id)[1] :
                        i \in {j \in DOMAIN items : ValidId(items[j].Id)}}
        ids == SortedSeq(ids_set)
    IN <<Sha256(JsonDumps(ids)), ids>>

\* sorted(normalized, key=Id): a stable sort, equal ids keep their order
RECURSIVE InsertById(_, _)
InsertById(s, t) ==
    IF s = <<>> THEN <<t>>
    ELSE IF t.Id < s[Len(s)].Id THEN InsertById(SubSeq(s, 1, Len(s) - 1), t) \o <<s[Len(s)]>>
    ELSE s \o <<t>>

RECURSIVE NormalizeFrom(_, _, _)
NormalizeFrom(items, i, acc) ==
    IF i > Len(items) THEN acc
    ELSE IF ~ValidId(items[i].Id) THEN NormalizeFrom(items, i + 1, acc)
    ELSE NormalizeFrom(items, i + 1,
            InsertById(acc, [Id |-> ToInt(items[i].Id)[1], Name |-> items[i].Name]))

NormalizeTasksForMessage(items) == NormalizeFrom(items, 1, <<>>)

\* the message of polling_open_queue_loop: the header's count and one line per task
BuildQueueText(normalized) ==
    [count |-> Len(normalized),
     lines |-> [i \in DOMAIN normalized |-> <<normalized[i].Id, normalized[i].Name>>]]

BackoffNoCap(interval) == Max(BaseIntervalS, interval * 2)

\* min(max_backoff_s, max(base_interval_s, interval_s * 2))
Backoff(interval) == Min(MaxBackoffS, Max(BaseIntervalS, interval * 2))

----------------------------------------------------------------------------
(* Inputs of the poller: what get_open may return.  A Name is the sequence *)
(* of its characters; ServiceId is a raw value like Id.                    *)

NameA == <<"A">>
NameARenamed == <<"A", "b">>
NameB == <<"B">>
NameZ == <<"Z">>

ItemPool ==
    { [Id |-> PyInt(1), Name |-> NameA, ServiceId |-> PyMissing],
      [Id |-> PyNumStr(1), Name |-> NameARenamed, ServiceId |-> PyInt(101)],
      [Id |-> PyInt(2), Name |-> NameB, ServiceId |-> PyNumStr(101)],
      [Id |-> PyInt(0), Name |-> NameZ, ServiceId |-> PyMissing],
      [Id |-> PyBadStr, Name |-> NameZ, ServiceId |-> PyInt(101)] }

ItemLists == UNION {[1..n -> ItemPool] : n \in 0..MaxItems}

\* the items the escalation engine is fed: a ticket whose name matches no
\* keyword, the same ticket renamed (its Id given as text), a second ticket
\* and an item without a valid id
EscItemPool ==
    { [Id |-> PyInt(1), Name |-> NameA, ServiceId |-> PyMissing],
      [Id |-> PyNumStr(1), Name |-> NameARenamed, ServiceId |-> PyMissing],
      [Id |-> PyInt(2), Name |-> NameB, ServiceId |-> PyNumStr(101)],
      [Id |-> PyInt(0), Name |-> NameZ, ServiceId |-> PyInt(101)] }

EscItemLists == UNION {[1..n -> EscItemPool] : n \in 0..MaxItems}

----------------------------------------------------------------------------
(* The poller *)

PollInit ==
    /\ pc = "loop"
    /\ stop_event = FALSE
    /\ runs = 0 /\ failures = 0 /\ consecutive_failures = 0
    /\ last_error = None
    /\ last_sent_snapshot = None /\ last_sent_ids = None
    /\ last_sent_count = None /\ last_sent_at = None
    /\ interval_s = BaseIntervalS
    /\ res_items = <<>>
    /\ notify_text = None
    /\ iter_result = "none"
    /\ prev_interval = BaseIntervalS

PollIterateIgnoringStop ==
    /\ pc = "loop" /\ runs < MaxRuns
    /\ pc' = "fetch"
    /\ runs' = runs + 1
    /\ prev_interval' = interval_s
    /\ res_items' = <<>>
    /\ iter_result' = "running"
    /\ UNCHANGED <<stop_event, failures, consecutive_failures, last_error,
                   last_sent_snapshot, last_sent_ids, last_sent_count,
                   last_sent_at, interval_s, notify_text>>

\* while not stop_event.is_set(): runs += 1, then await get_open(limit=200)
PollIterate ==
    /\ pc = "loop" /\ ~stop_event /\ runs < MaxRuns
    /\ pc' = "fetch"
    /\ runs' = runs + 1
    /\ prev_interval' = interval_s
    /\ res_items' = <<>>
    /\ iter_result' = "running"
    /\ UNCHANGED <<stop_event, failures, consecutive_failures, last_error,
                   last_sent_snapshot, last_sent_ids, last_sent_count,
                   last_sent_at, interval_s, notify_text>>

\* the while condition fails: the coroutine returns
PollExit ==
    /\ pc = "loop" /\ stop_event
    /\ pc' = "done"
    /\ UNCHANGED <<stop_event, runs, failures, consecutive_failures, last_error,
                   last_sent_snapshot, last_sent_ids, last_sent_count,
                   last_sent_at, interval_s, res_items, notify_text,
                   iter_result, prev_interval>>

\* get_open returned a result with ok = false
FetchNotOk ==
    /\ pc = "fetch"
    /\ failures' = failures + 1
    /\ consecutive_failures' = consecutive_failures + 1
    /\ last_error' = Some("sd_open_error")
    /\ interval_s' = Backoff(interval_s)
    /\ iter_result' = "fetch_fail"
    /\ pc' = "sleep"
    /\ UNCHANGED <<stop_event, runs, last_sent_snapshot, last_sent_ids,
                   last_sent_count, last_sent_at, res_items, notify_text,
                   prev_interval>>

\* get_open raised: the except branch
FetchRaise ==
    /\ pc = "fetch"
    /\ failures' = failures + 1
    /\ consecutive_failures' = consecutive_failures + 1
    /\ last_error' = Some("exception")
    /\ interval_s' = Backoff(interval_s)
    /\ iter_result' = "fetch_exc"
    /\ pc' = "sleep"
    /\ UNCHANGED <<stop_event, runs, last_sent_snapshot, last_sent_ids,
                   last_sent_count, last_sent_at, res_items, notify_text,
                   prev_interval>>

\* get_open returned ok: reset the interval, compare snapshots, and either
\* start the notification (await notify(text)) or go to sleep
FetchOk(items) ==
    /\ pc = "fetch"
    /\ LET snap == MakeIdsSnapshotHash(items)
           should_send == (last_sent_snapshot = None) \/ (Some(snap[1]) # last_sent_snapshot)
       IN /\ last_error' = None
          /\ consecutive_failures' = 0
          /\ interval_s' = BaseIntervalS
          /\ res_items' = items
          /\ IF should_send
             THEN /\ notify_text' = Some(BuildQueueText(NormalizeTasksForMessage(items)))
                  /\ pc' = "notify"
                  /\ iter_result' = "running"
             ELSE /\ notify_text' = notify_text
                  /\ pc' = "sleep"
                  /\ iter_result' = "ok_nosend"
    /\ UNCHANGED <<stop_event, runs, failures, last_sent_snapshot, last_sent_ids,
                   last_sent_count, last_sent_at, prev_interval>>

\* time.time() as the poller reads it: the clock is monotone and only the
\* order of its readings matters, so a reading is the iteration's index
PollClock == runs

\* notify returned: the sent snapshot is recorded
NotifyOk ==
    /\ pc = "notify"
    /\ LET snap == MakeIdsSnapshotHash(res_items)
       IN /\ last_sent_snapshot' = Some(snap[1])
          /\ last_sent_ids' = Some(snap[2])
          /\ last_sent_count' = Some(Len(snap[2]))
          /\ last_sent_at' = Some(PollClock)
    /\ iter_result' = "ok_sent"
    /\ pc' = "sleep"
    /\ UNCHANGED <<stop_event, runs, failures, consecutive_failures, last_error,
                   interval_s, res_items, notify_text, prev_interval>>

NotifyRaiseEscapes ==
    /\ pc = "notify"
    /\ iter_result' = "notify_exc"
    /\ pc' = "done"
    /\ UNCHANGED <<stop_event, runs, failures, consecutive_failures, last_error,
                   last_sent_snapshot, last_sent_ids, last_sent_count,
                   last_sent_at, interval_s, res_items, notify_text, prev_interval>>

NotifyRaiseRecordsSnapshot ==
    /\ pc = "notify"
    /\ failures' = failures + 1
    /\ consecutive_failures' = consecutive_failures + 1
    /\ last_error' = Some("exception")
    /\ interval_s' = Backoff(interval_s)
    /\ iter_result' = "notify_exc"
    /\ pc' = "sleep"
    /\ LET snap == MakeIdsSnapshotHash(res_items)
       IN /\ last_sent_snapshot' = Some(snap[1])
          /\ last_sent_ids' = Some(snap[2])
          /\ last_sent_count' = Some(Len(snap[2]))
          /\ last_sent_at' = Some(PollClock)
    /\ UNCHANGED <<stop_event, runs, res_items, notify_text, prev_interval>>

\* notify raised: the except branch, after the success branch reset the interval
NotifyRaise ==
    /\ pc = "notify"
    /\ failures' = failures + 1
    /\ consecutive_failures' = consecutive_failures + 1
    /\ last_error' = Some("exception")
    /\ interval_s' = Backoff(interval_s)
    /\ iter_result' = "notify_exc"
    /\ pc' = "sleep"
    /\ UNCHANGED <<stop_event, runs, last_sent_snapshot, last_sent_ids,
                   last_sent_count, last_sent_at, res_items, notify_text,
                   prev_interval>>

\* wait_for(stop_event.wait(), timeout=interval_s) ends: by the stop or by the timeout
SleepEnd ==
    /\ pc = "sleep"
    /\ pc' = "loop"
    /\ UNCHANGED <<stop_event, runs, failures, consecutive_failures, last_error,
                   last_sent_snapshot, last_sent_ids, last_sent_count,
                   last_sent_at, interval_s, res_items, notify_text,
                   iter_result, prev_interval>>

\* main(): finally: stop_event.set()
SetStop ==
    /\ ~stop_event /\ pc # "done"
    /\ stop_event' = TRUE
    /\ UNCHANGED <<pc, runs, failures, consecutive_failures, last_error,
                   last_sent_snapshot, last_sent_ids, last_sent_count,
                   last_sent_at, interval_s, res_items, notify_text,
                   iter_result, prev_interval>>

\* main(): finally: stop_event.set(); polling_task.cancel(); await
\* polling_task.  main does not yield between set() and cancel(), so the
\* task, suspended at its await (get_open, notify or the sleep) or not yet
\* started, is resumed with CancelledError, which 'except Exception' does
\* not catch: the coroutine ends there
ShutdownCancel ==
    /\ ~stop_event
    /\ pc \in {"fetch", "notify", "sleep"} \/ (pc = "loop" /\ runs = 0)
    /\ stop_event' = TRUE
    /\ pc' = "cancelled"
    /\ iter_result' = (CASE pc = "fetch" -> "cancelled_fetch"
                         [] pc = "notify" -> "cancelled_notify"
                         [] pc = "sleep" -> "cancelled_sleep"
                         [] OTHER -> "cancelled_before_start")
    /\ UNCHANGED <<runs, failures, consecutive_failures, last_error,
                   last_sent_snapshot, last_sent_ids, last_sent_count,
                   last_sent_at, interval_s, res_items, notify_text,
                   prev_interval>>

----------------------------------------------------------------------------
(* The escalation engine *)

AfterS == 2

\* notify_router._to_int, used for ticket ids, state keys and filter fields
RouterToInt(value) ==
    IF value.kind \in {"int", "numstr"} THEN Some(value.v) ELSE None

\* str(tid): the key of a ticket in seen_at and escalated_at
StrOfInt(n) == PyNumStr(n)

\* notify_router._norm: casefold and strip
Casefold(c) == IF c = "A" THEN "a" ELSE IF c = "B" THEN "b" ELSE IF c = "Z" THEN "z" ELSE c

RECURSIVE Strip(_)
Strip(n) ==
    IF n = <<>> THEN n
    ELSE IF n[1] = " " THEN Strip(Tail(n))
    ELSE IF n[Len(n)] = " " THEN Strip(SubSeq(n, 1, Len(n) - 1))
    ELSE n

Norm(name) == Strip([i \in DOMAIN name |-> Casefold(name[i])])

\* k in n, for strings
Contains(n, k) ==
    \E i \in 1..(Len(n) - Len(k) + 1) : SubSeq(n, i, i + Len(k) - 1) = k

\* item.get(field)
GetField(item, field) ==
    IF field \in DOMAIN item THEN item[field] ELSE PyMissing

EmptyFilter ==
    [keywords |-> {}, service_ids |-> {}, customer_ids |-> {},
     creator_ids |-> {}, creator_company_ids |-> {}]

IdCriterionAnyValue(item, ids, field) ==
    /\ ids # {}
    /\ field # ""

IdCriterion(item, ids, field) ==
    /\ ids # {}
    /\ field # ""
    /\ RouterToInt(GetField(item, field)) # None
    /\ RouterToInt(GetField(item, field))[1] \in ids

\* match_escalation_filter, with the field names the manager was built with
MatchEscalationFilter(item, flt) ==
    IF /\ flt.keywords = {} /\ flt.service_ids = {} /\ flt.customer_ids = {}
       /\ flt.creator_ids = {} /\ flt.creator_company_ids = {}
    THEN TRUE
    ELSE \/ /\ "Name" \in DOMAIN item       \* isinstance(item.get("Name"), str)
            /\ \E k \in flt.keywords : Contains(Norm(item.Name), k)
         \/ IdCriterion(item, flt.service_ids, "ServiceId")
         \/ IdCriterion(item, flt.customer_ids, "CustomerId")
         \/ IdCriterion(item, flt.creator_ids, "CreatorId")
         \/ IdCriterion(item, flt.creator_company_ids, "CreatorCompanyId")

MatchItemRulesAlways(item, rs) == TRUE

\* EscalationManager._match_item_rules
MatchItemRules(item, rs) ==
    /\ rs # <<>>
    /\ \E i \in DOMAIN rs : MatchEscalationFilter(item, rs[i].flt)

\* the rule lists a manager may be built with
RuleLists ==
    { <<>>,
      << [dest |-> 10, flt |-> [EmptyFilter EXCEPT !.service_ids = {101}]],
         [dest |-> 20, flt |-> [EmptyFilter EXCEPT !.keywords = {<<"a", "b">>}]] >>,
      << [dest |-> 30, flt |-> EmptyFilter] >> }

\* current_ids of process: the keys of the items with a valid id
CurrentIds(items) ==
    {StrOfInt(RouterToInt(items[i].Id)[1]) :
        i \in {j \in DOMAIN items :
                  RouterToInt(items[j].Id) # None /\ RouterToInt(items[j].Id)[1] > 0}}

\* id_to_item[k]: the last item of the list with that key
IdToItem(items, k) ==
    LET idx == {i \in DOMAIN items :
                  RouterToInt(items[i].Id) # None /\ StrOfInt(RouterToInt(items[i].Id)[1]) = k}
    IN items[CHOOSE i \in idx : \A j \in idx : j <= i]

\* the first loop of process: seen_at[k] = now for the keys not yet in seen_at
MarkSeenOverwrite(seen, cur, t) ==
    [k \in (DOMAIN seen) \cup cur |-> IF k \in cur THEN t ELSE seen[k]]

MarkSeen(seen, cur, t) ==
    [k \in (DOMAIN seen) \cup cur |-> IF k \in DOMAIN seen THEN seen[k] ELSE t]

\* the second loop: the keys of seen_at that are not current are popped from
\* seen_at ...
EvictSeen(seen, cur) == [k \in (DOMAIN seen) \cap cur |-> seen[k]]

EvictEscalatedNever(esc, seen, cur) == esc

\* ... and from escalated_at
EvictEscalated(esc, seen, cur) ==
    [k \in (DOMAIN esc) \ ((DOMAIN seen) \ cur) |-> esc[k]]

ShouldEscalateIgnoringMark(age, marked) == age >= AfterS

ShouldEscalateLate(age, marked) == age > AfterS /\ ~marked

\* age >= self._after_s and k not in self._state.escalated_at
ShouldEscalate(age, marked) == age >= AfterS /\ ~marked

\* the third loop: the keys to escalate now
ToEscalate(items, cur, seen, esc, rs, t) ==
    {k \in cur :
        /\ MatchItemRules(IdToItem(items, k), rs)
        /\ ShouldEscalate(t - (IF k \in DOMAIN seen THEN seen[k] ELSE t),
                          k \in DOMAIN esc)}

MarkEscalated(esc, ks, t) ==
    [k \in (DOMAIN esc) \cup ks |-> IF k \in ks THEN t ELSE esc[k]]

SavePayloadWithoutMarks(seen, esc) == [seen_at |-> seen, escalated_at |-> <<>>]

\* _save: the payload written under store_key
SavePayload(seen, esc) == [seen_at |-> seen, escalated_at |-> esc]

\* _load: one map of the stored payload, its non-integer keys dropped
LoadMap(m) == [k \in {x \in DOMAIN m : RouterToInt(x) # None} |-> m[k]]

\* a manager just built over an empty store, with or without a store and
\* with one of the rule lists
EscInitWith(stores, rule_lists) ==
    /\ seen_at = <<>> /\ escalated_at = <<>>
    /\ store = None
    /\ has_store \in stores
    /\ rules \in rule_lists
    /\ esc_op = "init"
    /\ call_at = 0
    /\ call_ids = {} /\ call_match = {} /\ ret_ids = {} /\ ret_items = {}
    /\ first_seen_h = <<>> /\ ret_inst_h = <<>> /\ ret_total_h = <<>>
    /\ ret_ever_h = <<>>

EscInit == EscInitWith(BOOLEAN, RuleLists)

\* what get_json may hand to _load: the two maps of a payload some earlier
\* writer left under store_key, with a key that is no integer among them
StoredKeys == {PyNumStr(1), PyBadStr}
StoredMaps == {[k \in S |-> 0] : S \in SUBSET StoredKeys}
StoredPayloads == {[seen_at |-> s, escalated_at |-> e] : s \in StoredMaps, e \in StoredMaps}

\* a manager just built over a store that holds one of these payloads
EscLoadInit ==
    /\ store \in {Some(p) : p \in StoredPayloads}
    /\ has_store = TRUE
    /\ seen_at = LoadMap(store[1].seen_at)
    /\ escalated_at = LoadMap(store[1].escalated_at)
    /\ rules \in RuleLists
    /\ esc_op = "init"
    /\ call_at = 0
    /\ call_ids = {} /\ call_match = {} /\ ret_ids = {} /\ ret_items = {}
    /\ first_seen_h = <<>> /\ ret_inst_h = <<>> /\ ret_total_h = <<>>
    /\ ret_ever_h = <<>>

\* the ids (as integers) of a set of keys
IdsOf(ks) == {k.v : k \in ks}

\* a history count after a call: kept for the ids still present, raised for
\* the returned ones
Counted(h, ids, returned) ==
    [t \in ids |-> (IF t \in DOMAIN h THEN h[t] ELSE 0) + (IF t \in returned THEN 1 ELSE 0)]

\* EscalationManager.process(items) at time now: the three loops, _save and
\* the returned tickets (each local is computed once, in the code's order).
\* save_ok: set_json returns; otherwise it raises and process with it, after
\* the state was changed in memory
ProcessSaving(items, save_ok) ==
    \E cur \in {CurrentIds(items)} :
    \E seen1 \in {MarkSeen(seen_at, cur, now)} :
    \E seen2 \in {EvictSeen(seen1, cur)} :
    \E esc2 \in {EvictEscalated(escalated_at, seen1, cur)} :
    \E ks \in {ToEscalate(items, cur, seen2, esc2, rules, now)} :
    \E esc3 \in {MarkEscalated(esc2, ks, now)} :
    \E ids \in {IdsOf(cur)} :
    \E returned \in {IF save_ok THEN IdsOf(ks) ELSE {}} :
       /\ has_store \/ save_ok
       /\ seen_at' = seen2
       /\ escalated_at' = esc3
       /\ store' = IF has_store /\ save_ok THEN Some(SavePayload(seen2, esc3)) ELSE store
       /\ esc_op' = IF save_ok THEN "process" ELSE "process_raised"
       /\ call_at' = now
       /\ call_ids' = ids
       /\ call_match' =
            {t \in ids : \A i \in DOMAIN items :
                (RouterToInt(items[i].Id) = Some(t)) => MatchItemRules(items[i], rules)}
       /\ ret_ids' = returned
       /\ ret_items' = IF save_ok THEN {IdToItem(items, k) : k \in ks} ELSE {}
       /\ first_seen_h' = [t \in ids |-> IF t \in DOMAIN first_seen_h
                                          THEN first_seen_h[t] ELSE now]
       /\ ret_inst_h' = Counted(ret_inst_h, ids, returned)
       /\ ret_total_h' = Counted(ret_total_h, ids, returned)
       /\ ret_ever_h' = [t \in (DOMAIN ret_ever_h) \cup ids |->
                            (IF t \in DOMAIN ret_ever_h THEN ret_ever_h[t] ELSE 0)
                            + (IF t \in returned THEN 1 ELSE 0)]
       /\ UNCHANGED <<has_store, rules, now>>

\* process with the store answering
Process(items) == ProcessSaving(items, TRUE)

\* a new EscalationManager over the same store: __init__ and _load
Restart ==
    /\ esc_op # "init"
    /\ IF has_store /\ store # None
       THEN /\ seen_at' = LoadMap(store[1].seen_at)
            /\ escalated_at' = LoadMap(store[1].escalated_at)
       ELSE /\ seen_at' = <<>>
            /\ escalated_at' = <<>>
    /\ esc_op' = "restart"
    /\ ret_inst_h' = [t \in DOMAIN ret_inst_h |-> 0]
    /\ first_seen_h' = IF has_store THEN first_seen_h ELSE <<>>
    /\ UNCHANGED <<store, has_store, rules, now, call_at, call_ids, call_match,
                   ret_ids, ret_items, ret_total_h, ret_ever_h>>

\* wall-clock time passes
Tick ==
    /\ now < MaxTime
    /\ now' = now + 1
    /\ UNCHANGED escVars


----------------------------------------------------------------------------
(* Observability: the four rate-limited admin alerts *)

Kinds == {"nodest", "web", "redis", "rollback"}

\* the min intervals the service is built with
AdminAlertMinIntervalS == 2
WebAlertMinIntervalS == 2
RedisAlertMinIntervalS == 3
RollbackAlertMinIntervalS == 2

MinInterval(kind) ==
    CASE kind = "nodest" -> AdminAlertMinIntervalS
      [] kind = "web" -> web_interval
      [] kind = "redis" -> RedisAlertMinIntervalS
      [] kind = "rollback" -> RollbackAlertMinIntervalS

RateLimitedNever(last, t, min_interval_s) == FALSE

\* last_*_alert_at is not None and (now - last_*_alert_at) < min_interval_s
RateLimited(last, t, min_interval_s) == last # None /\ (t - last[1]) < min_interval_s

\* the skipped counter after a send: the code leaves it as it is
SkippedAfterSend(n) == n

\* the keyword parameters of build_web_degraded_alert_text
WebAlertTextParams == {"health_ok", "ready_ok", "health_status", "ready_status"}

\* the keyword arguments check_web passes to it
CheckWebKwargs ==
    {"health_ok", "ready_ok", "health_status", "ready_status",
     "health_error", "ready_error", "attempts"}

\* a call of a keyword-only function: TypeError unless every argument is a
\* parameter and every parameter (none has a default) is given
CallRaisesTypeError(kwargs, params) == kwargs # params

\* the rounds check_web probes: it stops at the first round with both ok
RECURSIVE ProbeRounds(_, _)
ProbeRounds(probes, i) ==
    IF i > Len(probes) THEN Len(probes)
    ELSE IF probes[i][1] /\ probes[i][2] THEN i
    ELSE ProbeRounds(probes, i + 1)

WebAttempts == 3

ProbeLists == [1..WebAttempts -> BOOLEAN \X BOOLEAN]

ObsInitWith(interval, dests) ==
    /\ last_alert_at = [k \in Kinds |-> None]
    /\ skipped = [k \in Kinds |-> 0]
    /\ tickets_without_destination_total = 0
    /\ last_ticket_without_destination_at = None
    /\ web_interval = interval
    /\ web_cache = None
    /\ admin_dest \in dests
    /\ obs_op = "none"
    /\ obs_attempts = 0
    /\ sent_h = [k \in Kinds |-> 0]
    /\ last_sent_h = [k \in Kinds |-> None]
    /\ gap_h = [k \in Kinds |-> None]
    /\ suppressed_h = [k \in Kinds |-> 0]
    /\ checks_h = 0

ObsInit == ObsInitWith(WebAlertMinIntervalS, BOOLEAN)

\* the history of an attempt of kind k that met a closed window
NoteSuppressed(k) ==
    /\ suppressed_h' = [suppressed_h EXCEPT ![k] = @ + 1]
    /\ UNCHANGED <<sent_h, last_sent_h, gap_h>>

\* the history of an alert of kind k handed to bot.send_message at time now
NoteSent(k) ==
    /\ sent_h' = [sent_h EXCEPT ![k] = @ + 1]
    /\ last_sent_h' = [last_sent_h EXCEPT ![k] = Some(now)]
    /\ gap_h' = [gap_h EXCEPT ![k] =
                    IF last_sent_h[k] = None THEN @
                    ELSE IF @ = None THEN Some(now - last_sent_h[k][1])
                    ELSE Some(Min(@[1], now - last_sent_h[k][1]))]
    /\ UNCHANGED suppressed_h

NoteNothing == UNCHANGED <<sent_h, last_sent_h, gap_h, suppressed_h>>

\* ObservabilityService.handle_no_destination(items); send_ok: whether
\* bot.send_message returns or raises (the exception is logged)
HandleNoDestination(send_ok) ==
    /\ obs_attempts < MaxAttempts
    /\ obs_attempts' = obs_attempts + 1
    /\ tickets_without_destination_total' = tickets_without_destination_total + 1
    /\ last_ticket_without_destination_at' = Some(now)
    /\ IF RateLimited(last_alert_at["nodest"], now, MinInterval("nodest"))
       THEN /\ skipped' = [skipped EXCEPT !["nodest"] = @ + 1]
            /\ obs_op' = "nodest_skipped"
            /\ NoteSuppressed("nodest")
            /\ UNCHANGED last_alert_at
       ELSE /\ last_alert_at' = [last_alert_at EXCEPT !["nodest"] = Some(now)]
            /\ IF ~admin_dest
               THEN /\ obs_op' = "nodest_no_admin_dest"
                    /\ NoteNothing
                    /\ UNCHANGED skipped
               ELSE /\ obs_op' = IF send_ok THEN "nodest_sent" ELSE "nodest_send_failed"
                    /\ NoteSent("nodest")
                    /\ skipped' = [skipped EXCEPT !["nodest"] = SkippedAfterSend(@)]
    /\ UNCHANGED <<web_interval, web_cache, admin_dest, checks_h, now>>

\* the part of an alert path shared by check_redis and check_rollbacks, after
\* the degradation was found: rate limit, destination, last_*_alert_at, send
AlertPath(k, send_ok) ==
    IF RateLimited(last_alert_at[k], now, MinInterval(k))
    THEN /\ skipped' = [skipped EXCEPT ![k] = @ + 1]
         /\ obs_op' = k \o "_skipped"
         /\ NoteSuppressed(k)
         /\ UNCHANGED last_alert_at
    ELSE IF ~admin_dest
    THEN /\ obs_op' = k \o "_no_admin_dest"
         /\ NoteNothing
         /\ UNCHANGED <<skipped, last_alert_at>>
    ELSE /\ last_alert_at' = [last_alert_at EXCEPT ![k] = Some(now)]
         /\ obs_op' = k \o (IF send_ok THEN "_sent" ELSE "_send_failed")
         /\ NoteSent(k)
         /\ skipped' = [skipped EXCEPT ![k] = SkippedAfterSend(@)]

\* ObservabilityService.check_web(), probes: the results (health ok, ready ok)
\* of the rounds it may run
CheckWeb(probes, send_ok) ==
    /\ obs_attempts' = obs_attempts + 1
    /\ \E n \in {ProbeRounds(probes, 1)} :
       \E last_health \in {probes[n][1]} :
       \E last_ready \in {probes[n][2]} :
          /\ web_cache' = Some(<<now, last_health, last_ready>>)
          /\ IF last_health /\ last_ready
             THEN /\ obs_op' = "web_healthy"
                  /\ NoteNothing
                  /\ UNCHANGED <<skipped, last_alert_at>>
             ELSE IF RateLimited(last_alert_at["web"], now, MinInterval("web"))
             THEN /\ skipped' = [skipped EXCEPT !["web"] = @ + 1]
                  /\ obs_op' = "web_skipped"
                  /\ NoteSuppressed("web")
                  /\ UNCHANGED last_alert_at
             ELSE IF ~admin_dest
             THEN /\ obs_op' = "web_no_admin_dest"
                  /\ NoteNothing
                  /\ UNCHANGED <<skipped, last_alert_at>>
             ELSE IF CallRaisesTypeError(CheckWebKwargs, WebAlertTextParams)
             THEN \* build_web_degraded_alert_text(...) raises before
                  \* last_web_alert_at is written; check_web propagates it
                  /\ obs_op' = "web_type_error"
                  /\ NoteNothing
                  /\ UNCHANGED <<skipped, last_alert_at>>
             ELSE /\ last_alert_at' = [last_alert_at EXCEPT !["web"] = Some(now)]
                  /\ obs_op' = IF send_ok THEN "web_sent" ELSE "web_send_failed"
                  /\ NoteSent("web")
                  /\ skipped' = [skipped EXCEPT !["web"] = SkippedAfterSend(@)]
    /\ UNCHANGED <<tickets_without_destination_total,
                   last_ticket_without_destination_at, web_interval, admin_dest, now>>

\* what check_redis finds: no store (or no ping), ping() returns, ping()
\* raises an exception with a message, ping() raises one without
PingOutcomes == {"no_store", "ok", "raises", "raises_blank"}

\* error = "", then error = str(e) when ping() raises
PingErrorText(ping) ==
    IF ping = "raises" THEN "ping failed" ELSE ""

\* ObservabilityService.check_redis()
CheckRedis(ping, send_ok) ==
    /\ obs_attempts < MaxAttempts
    /\ obs_attempts' = obs_attempts + 1
    /\ IF PingErrorText(ping) = ""
       THEN /\ obs_op' = "redis_" \o ping
            /\ NoteNothing
            /\ UNCHANGED <<skipped, last_alert_at>>
       ELSE AlertPath("redis", send_ok)
    /\ UNCHANGED <<tickets_without_destination_total,
                   last_ticket_without_destination_at, web_interval, web_cache,
                   admin_dest, checks_h, now>>

RollbackThreshold == 2

\* what get_rollbacks answers: None when there is no admin token or the
\* answer is not ok, else the count of rollbacks in the window
RollbackResults == {None} \cup {Some(c) : c \in 0..RollbackThreshold}

\* ObservabilityService.check_rollbacks(window_s, threshold)
CheckRollbacks(res, send_ok) ==
    /\ obs_attempts < MaxAttempts
    /\ obs_attempts' = obs_attempts + 1
    /\ IF res = None \/ res[1] < RollbackThreshold
       THEN /\ obs_op' = "rollback_no_alert"
            /\ NoteNothing
            /\ UNCHANGED <<skipped, last_alert_at>>
       ELSE AlertPath("rollback", send_ok)
    /\ UNCHANGED <<tickets_without_destination_total,
                   last_ticket_without_destination_at, web_interval, web_cache,
                   admin_dest, checks_h, now>>

ObsTick ==
    /\ now < MaxTime
    /\ now' = now + 1
    /\ UNCHANGED obsVars


----------------------------------------------------------------------------
(* The backend stays degraded: one check_web a minute for half an hour, the *)
(* clock counts minutes                                                     *)

DegradedMinutes == 30
DegradedIntervalMin == 10

DegradedInit == ObsInitWith(DegradedIntervalMin, {TRUE})

\* the check of this minute: /ready fails in every round
DegradedCheck ==
    /\ now < DegradedMinutes
    /\ checks_h = 0
    /\ checks_h' = 1
    /\ \E probes \in {p \in ProbeLists : \A i \in DOMAIN p : ~p[i][2]}, send_ok \in BOOLEAN :
            CheckWeb(probes, send_ok)

\* the next minute begins
DegradedMinute ==
    /\ now < DegradedMinutes
    /\ checks_h = 1
    /\ checks_h' = 0
    /\ now' = now + 1
    /\ UNCHANGED <<last_alert_at, skipped, tickets_without_destination_total,
                   last_ticket_without_destination_at, web_interval, web_cache,
                   admin_dest, obs_op, obs_attempts, sent_h, last_sent_h, gap_h,
                   suppressed_h>>


----------------------------------------------------------------------------
(* The config store of the web service: the single row of bot_config, read  *)
(* by read_config and seeded by init_db; write and rollback follow the      *)
(* design's config store                                                    *)

MaxWrites == 3

\* the version init_db gives the seeded row
SeedVersion == 1

Writers == {"w1", "w2"}

\* the configurations a client may send; valid: what validate_config answers
DefaultConfig == [name |-> "default", valid |-> TRUE]
ConfigA == [name |-> "A", valid |-> TRUE]
ConfigB == [name |-> "B", valid |-> TRUE]
ConfigBad == [name |-> "bad", valid |-> FALSE]
ClientConfigs == {ConfigA, ConfigB, ConfigBad}

\* validate_config: raises ConfigValidationError or returns
ValidateConfig(c) == c.valid

\* json.dumps(config) and json.loads(text): a text written by dumps parses
\* back to the config, any other text does not parse
ConfigJsonDumps(c) == [json |-> c]
ConfigJsonLoads(t) == IF "json" \in DOMAIN t THEN Some(t.json) ELSE None

\* the JSON values that are no object, and a text that is no JSON
NonObjectJson == {[json_type |-> "null"], [json_type |-> "array"],
                  [json_type |-> "number"], [json_type |-> "string"]}
NotJsonText == [text |-> "not json"]

\* data["version"] = ... is an item assignment: it works on a dict and
\* raises TypeError on None, a list, a number and a str
SupportsItemAssignment(data) == "json_type" \notin DOMAIN data

\* what the row id = 1 may hold: nothing, or a version and any text
TableRows ==
    {None} \cup
    {Some([version |-> v, config_json |-> t]) :
        v \in SeedVersion..(SeedVersion + MaxWrites),
        t \in {ConfigJsonDumps(c) : c \in {DefaultConfig, ConfigA} \cup NonObjectJson}
               \cup {NotJsonText}}

NoTx == [seen |-> 0, body |-> DefaultConfig, kind |-> "none", to |-> 0]

CfgIdle ==
    /\ cfg_row = None
    /\ cfg_bodies = <<>>
    /\ cfg_lock = None
    /\ cfg_tx = [w \in Writers |-> NoTx]
    /\ cfg_op = [op |-> "none", w |-> "", version |-> 0]
    /\ cfg_read = None
    /\ cfg_writes_h = <<>>

InitDbSeedingZero ==
    /\ IF cfg_row = None
       THEN cfg_row' = Some([version |-> 0,
                             config_json |-> ConfigJsonDumps(DefaultConfig)])
       ELSE UNCHANGED cfg_row
    /\ cfg_op' = [op |-> "init_db", w |-> "", version |-> 0]
    /\ UNCHANGED <<cfg_bodies, cfg_lock, cfg_tx, cfg_read, cfg_writes_h>>

\* init_db: the row id = 1 is added, with version 1 and the default config,
\* when it is not there
InitDb ==
    /\ IF cfg_row = None
       THEN cfg_row' = Some([version |-> SeedVersion,
                             config_json |-> ConfigJsonDumps(DefaultConfig)])
       ELSE UNCHANGED cfg_row
    /\ cfg_op' = [op |-> "init_db", w |-> "", version |-> 0]
    /\ UNCHANGED <<cfg_bodies, cfg_lock, cfg_tx, cfg_read, cfg_writes_h>>

\* read_config: (data with data["version"] = row.version, None), or (None, error)
\* db_ok: the session gets the row; otherwise SQLAlchemyError is raised and
\* caught.  The TypeError of the item assignment is not caught: the call
\* raises and returns nothing (op "read_raised")
ReadConfig(db_ok) ==
    /\ IF ~db_ok
       THEN /\ cfg_read' = Some([data |-> None, err |-> "db error"])
            /\ cfg_op' = [op |-> "read", w |-> "", version |-> 0]
       ELSE IF cfg_row = None
       THEN /\ cfg_read' = Some([data |-> None, err |-> "bot_config row id=1 not found"])
            /\ cfg_op' = [op |-> "read", w |-> "", version |-> 0]
       ELSE IF ConfigJsonLoads(cfg_row[1].config_json) = None
       THEN /\ cfg_read' = Some([data |-> None, err |-> "config_json parse error"])
            /\ cfg_op' = [op |-> "read", w |-> "", version |-> 0]
       ELSE IF ~SupportsItemAssignment(ConfigJsonLoads(cfg_row[1].config_json)[1])
       THEN /\ cfg_read' = None
            /\ cfg_op' = [op |-> "read_raised", w |-> "", version |-> 0]
       ELSE /\ cfg_read' =
                 Some([data |-> Some([config |-> ConfigJsonLoads(cfg_row[1].config_json)[1],
                                      version |-> cfg_row[1].version]),
                       err |-> ""])
            /\ cfg_op' = [op |-> "read", w |-> "", version |-> 0]
    /\ UNCHANGED <<cfg_row, cfg_bodies, cfg_lock, cfg_tx, cfg_writes_h>>

CanBeginWithoutLock(lock) == TRUE

\* a writer's transaction reads the row under the store's lock: it starts
\* when no other writer holds it
CanBegin(lock) == lock = None

\* version = version + 1
NextVersion(v) == v + 1

\* the transactions open or committed so far
WritesStarted == Len(cfg_writes_h) + Cardinality({w \in Writers : cfg_tx[w].kind # "none"})

\* write, step 1 failed: the config is rejected and the database not touched
WriteRejected(w, c) ==
    /\ cfg_tx[w].kind = "none"
    /\ ~ValidateConfig(c)
    /\ cfg_op' = [op |-> "invalid", w |-> w, version |-> 0]
    /\ UNCHANGED <<cfg_row, cfg_bodies, cfg_lock, cfg_tx, cfg_read, cfg_writes_h>>

\* write, step 2 begins: the config is valid, the transaction reads the row
TxBegin(w, c, kind, to) ==
    /\ cfg_row # None
    /\ cfg_tx[w].kind = "none"
    /\ WritesStarted < MaxWrites
    /\ ValidateConfig(c)
    /\ CanBegin(cfg_lock)
    /\ cfg_lock' = Some(w)
    /\ cfg_tx' = [cfg_tx EXCEPT ![w] =
                     [seen |-> cfg_row[1].version, body |-> c, kind |-> kind, to |-> to]]
    /\ cfg_op' = [op |-> "begin", w |-> w, version |-> 0]
    /\ UNCHANGED <<cfg_row, cfg_bodies, cfg_read, cfg_writes_h>>

\* write, step 2 ends: the history gets the prior body, the row gets
\* version + 1 and the new body, the transaction commits and the new version
\* is returned
TxCommit(w) ==
    /\ cfg_tx[w].kind # "none"
    /\ \E v \in {NextVersion(cfg_tx[w].seen)} :
          /\ cfg_row' = Some([version |-> v, config_json |-> ConfigJsonDumps(cfg_tx[w].body)])
          /\ cfg_bodies' = [k \in (DOMAIN cfg_bodies) \cup {cfg_tx[w].seen} |->
                               IF k = cfg_tx[w].seen THEN cfg_row[1].config_json
                               ELSE cfg_bodies[k]]
          /\ cfg_writes_h' = Append(cfg_writes_h,
                                  [version |-> v, body |-> cfg_tx[w].body,
                                   kind |-> cfg_tx[w].kind, to |-> cfg_tx[w].to, w |-> w])
          /\ cfg_op' = [op |-> "written", w |-> w, version |-> v]
    /\ cfg_lock' = IF cfg_lock = Some(w) THEN None ELSE cfg_lock
    /\ cfg_tx' = [cfg_tx EXCEPT ![w] = NoTx]
    /\ UNCHANGED cfg_read

\* write(new_config): rejected, or begun
Write(w, c) == TxBegin(w, c, "write", 0)

RollbackBodyOfPrior(bodies, to) ==
    IF to - 1 \in DOMAIN bodies THEN bodies[to - 1] ELSE bodies[to]

\* the body rollback fetches from the history: the one version 'to' had
RollbackBody(bodies, to) == bodies[to]

\* rollback(to_version): a version the history has no body of is an error,
\* else a write of that version's body
Rollback(w, to) ==
    IF to \notin DOMAIN cfg_bodies
    THEN /\ cfg_tx[w].kind = "none"
         /\ cfg_op' = [op |-> "no_such_version", w |-> w, version |-> 0]
         /\ UNCHANGED <<cfg_row, cfg_bodies, cfg_lock, cfg_tx, cfg_read, cfg_writes_h>>
    ELSE TxBegin(w, ConfigJsonLoads(RollbackBody(cfg_bodies, to))[1], "rollback", to)

----------------------------------------------------------------------------
(* The notification service: notify_main with routing *)

\* Destination(chat_id, thread_id)
Dest(chat) == [chat_id |-> chat, thread_id |-> None]
Destinations == {Dest(10), Dest(20), Dest(99)}

\* a routing rule matches an item when any of its non-empty criteria does
RouteRuleMatchesItem(item, flt) ==
    \/ \E k \in flt.keywords : Contains(Norm(item.Name), k)
    \/ IdCriterion(item, flt.service_ids, "ServiceId")
    \/ IdCriterion(item, flt.customer_ids, "CustomerId")
    \/ IdCriterion(item, flt.creator_ids, "CreatorId")
    \/ IdCriterion(item, flt.creator_company_ids, "CreatorCompanyId")

\* ... and a list of items when it matches one of them
RouteRuleMatches(items, rule) ==
    \E i \in DOMAIN items : RouteRuleMatchesItem(items[i], rule.flt)

RECURSIVE MatchFromKeepingDuplicates(_, _, _, _)
MatchFromKeepingDuplicates(items, rs, i, acc) ==
    IF i > Len(rs) THEN acc
    ELSE MatchFromKeepingDuplicates(items, rs, i + 1,
            IF RouteRuleMatches(items, rs[i]) THEN Append(acc, rs[i].dest) ELSE acc)

MatchDestinationsKeepingDuplicates(items, rs) ==
    MatchFromKeepingDuplicates(items, rs, 1, <<>>)

RECURSIVE MatchFrom(_, _, _, _)
MatchFrom(items, rs, i, acc) ==
    IF i > Len(rs) THEN acc
    ELSE MatchFrom(items, rs, i + 1,
            IF RouteRuleMatches(items, rs[i]) /\ rs[i].dest \notin SeqRange(acc)
            THEN Append(acc, rs[i].dest)
            ELSE acc)

\* match_destinations: the destinations of the matching rules, in rule
\* order, each once
MatchDestinations(items, rs) == MatchFrom(items, rs, 1, <<>>)

\* pick_destinations
PickDestinations(items, rs, default_dest) ==
    IF MatchDestinations(items, rs) # <<>> THEN MatchDestinations(items, rs)
    ELSE IF default_dest # None THEN <<default_dest[1]>>
    ELSE <<>>

RuleKeywordA == [dest |-> Dest(10), flt |-> [EmptyFilter EXCEPT !.keywords = {<<"a">>}]]
RuleService101 == [dest |-> Dest(20), flt |-> [EmptyFilter EXCEPT !.service_ids = {101}]]
RuleKeywordB == [dest |-> Dest(20), flt |-> [EmptyFilter EXCEPT !.keywords = {<<"b">>}]]

\* the routing configs the web service may serve
RoutingConfigs ==
    { [rules |-> <<>>, default_dest |-> None],
      [rules |-> <<>>, default_dest |-> Some(Dest(99))],
      [rules |-> <<RuleKeywordA, RuleService101>>, default_dest |-> Some(Dest(99))],
      [rules |-> <<RuleService101, RuleKeywordA, RuleKeywordB>>, default_dest |-> None] }

\* the item lists the poller notifies about
NotifyItemLists ==
    { <<>>,
      << [Id |-> PyInt(1), Name |-> NameA, ServiceId |-> PyMissing] >>,
      << [Id |-> PyNumStr(1), Name |-> NameARenamed, ServiceId |-> PyInt(101)] >>,
      << [Id |-> PyInt(2), Name |-> NameB, ServiceId |-> PyNumStr(101)] >>,
      << [Id |-> PyInt(0), Name |-> NameZ, ServiceId |-> PyMissing] >>,
      << [Id |-> PyInt(0), Name |-> NameZ, ServiceId |-> PyMissing],
         [Id |-> PyInt(1), Name |-> NameA, ServiceId |-> PyMissing] >> }

\* what bot.send_message does for a chat: returns, raises
\* TelegramForbiddenError, raises another exception
SendOutcomes == {"ok", "forbidden", "error"}

\* the methods ObservabilityService defines
ObservabilityMethods ==
    {"handle_no_destination", "check_web", "check_redis", "check_rollbacks"}

\* the exception a send's outcome leaves _send_message_safe with, "" when
\* it returns: only TelegramForbiddenError is caught, and its handler calls
\* self._observability.handle_forbidden_send
SendRaises(outcome) ==
    IF outcome = "error" THEN "TelegramAPIError"
    ELSE IF outcome = "forbidden" /\ "handle_forbidden_send" \notin ObservabilityMethods
    THEN "AttributeError"
    ELSE ""

\* the loop over dests: the sends attempted until one raises
RECURSIVE SendFrom(_, _, _, _)
SendFrom(dests, chats, i, acc) ==
    IF i > Len(dests) THEN acc
    ELSE IF SendRaises(chats[dests[i]]) # ""
    THEN Append(acc, [dest |-> dests[i], outcome |-> chats[dests[i]]])
    ELSE SendFrom(dests, chats, i + 1,
                  Append(acc, [dest |-> dests[i], outcome |-> chats[dests[i]]]))

\* the forbidden sends handed to handle_forbidden_send
Delegated(attempts) ==
    IF "handle_forbidden_send" \in ObservabilityMethods
    THEN SelectSeq(attempts, LAMBDA a : a.outcome = "forbidden")
    ELSE <<>>

\* what notify_main raised: the exception of its last attempt
RaisedBy(attempts) ==
    IF attempts = <<>> THEN "" ELSE SendRaises(attempts[Len(attempts)].outcome)

\* ConfigSyncService.refresh: on success the bot's snapshot is swapped for
\* the served config, on failure the old snapshot is kept
ConfigSyncRefresh(ok, local, served) == IF ok THEN served ELSE local

ConfigForRoutingStale(before, after) == before

\* the routing pick_destinations is given: self._runtime_config.routing,
\* read after the refresh was awaited
ConfigForRouting(before, after) == after

NtfInitWith(routings) ==
    /\ runtime_routing \in routings
    /\ server_routing = runtime_routing
    /\ ntf_op = "none"
    /\ ntf_items = <<>>
    /\ ntf_before_h = runtime_routing
    /\ ntf_refresh_ok = FALSE
    /\ ntf_dests = <<>>
    /\ ntf_attempts = <<>>
    /\ ntf_nodest_calls = 0
    /\ ntf_forbidden = <<>>
    /\ ntf_raised = ""

NtfInit == NtfInitWith(RoutingConfigs)

NtfIdle == NtfInitWith({[rules |-> <<>>, default_dest |-> None]})


\* NotificationService.notify_main(items, text); refresh_ok: whether the
\* refresh got the served config, chats: what a send to each chat does,
\* send_ok: whether the admin alert's send returns
NotifyMain(items, refresh_ok, chats, send_ok) ==
    \E after \in {ConfigSyncRefresh(refresh_ok, runtime_routing, server_routing)} :
    \E routing \in {ConfigForRouting(runtime_routing, after)} :
    \E dests \in {PickDestinations(items, routing.rules, routing.default_dest)} :
        /\ runtime_routing' = after
        /\ ntf_op' = "main"
        /\ ntf_items' = items
        /\ ntf_before_h' = runtime_routing
        /\ ntf_refresh_ok' = refresh_ok
        /\ ntf_dests' = dests
        /\ IF dests = <<>>
           THEN /\ HandleNoDestination(send_ok)
                /\ ntf_nodest_calls' = 1
                /\ ntf_attempts' = <<>>
                /\ ntf_forbidden' = <<>>
                /\ ntf_raised' = ""
           ELSE /\ ntf_nodest_calls' = 0
                /\ ntf_attempts' = SendFrom(dests, chats, 1, <<>>)
                /\ ntf_forbidden' = Delegated(SendFrom(dests, chats, 1, <<>>))
                /\ ntf_raised' = RaisedBy(SendFrom(dests, chats, 1, <<>>))
                /\ UNCHANGED <<obsVars, now>>
        /\ UNCHANGED server_routing

\* the chats a notify_main of these items would send to
SendTargets(items, refresh_ok) ==
    SeqRange(PickDestinations(items,
        ConfigForRouting(runtime_routing,
            ConfigSyncRefresh(refresh_ok, runtime_routing, server_routing)).rules,
        ConfigForRouting(runtime_routing,
            ConfigSyncRefresh(refresh_ok, runtime_routing, server_routing)).default_dest))

\* an administrator writes another config
ServerConfigChange(routing) ==
    /\ routing # server_routing
    /\ server_routing' = routing
    /\ ntf_op' = "server_change"
    /\ UNCHANGED <<runtime_routing, ntf_items, ntf_before_h, ntf_refresh_ok, ntf_dests,
                   ntf_attempts, ntf_nodest_calls, ntf_forbidden, ntf_raised>>

----------------------------------------------------------------------------
(* make_ids_snapshot_hash as a function of the item list *)

SnapInitWith(lists) ==
    /\ snap_op = "none"
    /\ snap_items \in lists \X lists
    /\ snap_res = <<>>

SnapInit == SnapInitWith(ItemLists)

SnapIdle == SnapInitWith({<<>>})

\* the snapshots of the two item lists
SnapshotPair ==
    /\ snap_op = "none"
    /\ snap_op' = "pair"
    /\ snap_res' = <<MakeIdsSnapshotHash(snap_items[1]), MakeIdsSnapshotHash(snap_items[2])>>
    /\ UNCHANGED snap_items

----------------------------------------------------------------------------
(* The admin destination: parse_admin_alert_dest_from_env and the alerts *)
(* that are sent to it                                                   *)

\* the values of <PREFIX>_CHAT_ID and <PREFIX>_THREAD_ID
EnvUnset == [chat_id |-> PyMissing, thread_id |-> PyMissing]
EnvBad == [chat_id |-> PyBadStr, thread_id |-> PyMissing]
EnvSet(chat, thread) == [chat_id |-> PyNumStr(chat), thread_id |-> PyNumStr(thread)]

AdminAlertEnvs == {EnvUnset, EnvBad, EnvSet(500, 7)}
AlertEnvs == {EnvUnset, EnvSet(600, 0)}

\* env_helpers.parse_dest_from_env(prefix): the destination the variables
\* spell, None when the chat id is missing or not an integer; a thread id
\* that is missing, not an integer or 0 is no thread
ParseDestFromEnv(env) ==
    IF RouterToInt(env.chat_id) = None THEN None
    ELSE Some([chat_id |-> RouterToInt(env.chat_id)[1],
               thread_id |-> IF RouterToInt(env.thread_id) = None
                                \/ RouterToInt(env.thread_id)[1] = 0
                             THEN None ELSE RouterToInt(env.thread_id)])

ParseAdminAlertDestPreferringGeneral(admin, general) ==
    IF ParseDestFromEnv(general) # None THEN ParseDestFromEnv(general)
    ELSE ParseDestFromEnv(admin)

\* parse_admin_alert_dest_from_env(), admin and general: the ADMIN_ALERT and
\* the ALERT variables
ParseAdminAlertDestFromEnv(admin, general) ==
    IF ParseDestFromEnv(admin) # None THEN ParseDestFromEnv(admin)
    ELSE ParseDestFromEnv(general)

EnvInitWith(admins, generals) ==
    /\ env_admin_alert \in admins
    /\ env_alert \in generals
    /\ alert_dest_h = None

EnvInit == EnvInitWith(AdminAlertEnvs, AlertEnvs)

EnvIdle == EnvInitWith({EnvUnset}, {EnvUnset})

\* the destination of the alert an alert path has just handed to the chat,
\* if it did: dest_admin, parsed from the environment
AlertDestination ==
    alert_dest_h' = IF sent_h' # sent_h
                    THEN ParseAdminAlertDestFromEnv(env_admin_alert, env_alert)
                    ELSE alert_dest_h

\* the operator sets or unsets the variables between two alert attempts
Configure(admin, general) ==
    /\ <<admin, general>> # <<env_admin_alert, env_alert>>
    /\ env_admin_alert' = admin
    /\ env_alert' = general
    /\ admin_dest' = (ParseAdminAlertDestFromEnv(admin, general) # None)
    /\ obs_op' = "configured"
    /\ UNCHANGED <<alert_dest_h, last_alert_at, skipped, tickets_without_destination_total,
                   last_ticket_without_destination_at, web_interval, web_cache,
                   obs_attempts, sent_h, last_sent_h, gap_h, suppressed_h, checks_h, now>>

----------------------------------------------------------------------------
(* The web service: GET /ready.  A value that is stripped is the sequence *)
(* of its characters                                                      *)

ALLOWED_ENVIRONMENTS == {"staging", "prod", "local"}
REQUIRED_ENV_VARS == <<"SERVICEDESK_BASE_URL", "SERVICEDESK_API_TOKEN">>

\* the values a variable may have: unset (None) or set to a text
StrictValues == {None, Some(<<"1">>), Some(<<" ", "1">>), Some(<<"0">>), Some(<<>>)}
EnvironmentValues == {None, Some("prod"), Some("staging"), Some("local"),
                      Some("dev"), Some("prod ")}
RequiredValues == {None, Some(<<>>), Some(<<" ">>), Some(<<"x">>)}

ReadyEnvs ==
    [STRICT_READINESS : StrictValues, ENVIRONMENT : EnvironmentValues,
     SERVICEDESK_BASE_URL : RequiredValues, SERVICEDESK_API_TOKEN : RequiredValues]

\* os.getenv(key, default)
GetEnv(value, default) == IF value = None THEN default ELSE value[1]

\* get_environment
GetEnvironment(env) == GetEnv(env.ENVIRONMENT, "unknown")

\* is_strict_readiness
IsStrictReadiness(env) == Strip(GetEnv(env.STRICT_READINESS, <<"0">>)) = <<"1">>

\* _missing_required_env
MissingRequiredEnv(env) ==
    SelectSeq(REQUIRED_ENV_VARS, LAMBDA key : env[key] = None \/ Strip(env[key][1]) = <<>>)

CheckEnvironmentLenient(strict, env) ==
    [name |-> "env.environment", ok |-> TRUE]

\* _check_environment (the detail text is left out)
CheckEnvironment(strict, env) ==
    IF strict
    THEN [name |-> "env.environment", ok |-> GetEnvironment(env) \in ALLOWED_ENVIRONMENTS]
    ELSE [name |-> "env.environment", ok |-> TRUE]

\* _check_required_env (the detail text is left out)
CheckRequiredEnv(strict, env) ==
    IF strict
    THEN [name |-> "config.required_env", ok |-> Len(MissingRequiredEnv(env)) = 0]
    ELSE [name |-> "config.required_env", ok |-> TRUE]

\* build_readiness_checks
BuildReadinessChecks(env) ==
    <<CheckEnvironment(IsStrictReadiness(env), env),
      CheckRequiredEnv(IsStrictReadiness(env), env)>>

RdyInitWith(envs) ==
    /\ rdy_env \in envs
    /\ rdy_op = "none"
    /\ rdy_resp = None

RdyInit == RdyInitWith(ReadyEnvs)

RdyIdle ==
    RdyInitWith({[STRICT_READINESS |-> None, ENVIRONMENT |-> None,
                  SERVICEDESK_BASE_URL |-> None, SERVICEDESK_API_TOKEN |-> None]})

\* GET /ready
Ready ==
    /\ rdy_op = "none"
    /\ rdy_op' = "ready"
    /\ \E checks \in {BuildReadinessChecks(rdy_env)} :
       \E all_ok \in {\A i \in DOMAIN checks : checks[i].ok} :
          rdy_resp' = Some([status |-> IF all_ok THEN "ok" ELSE "not_ready",
                            ready |-> all_ok,
                            strict |-> IsStrictReadiness(rdy_env),
                            checks |-> checks,
                            code |-> IF all_ok THEN 200 ELSE 503])
    /\ UNCHANGED rdy_env

----------------------------------------------------------------------------
(* The bot's WebClient and WebGuard.  Callers are coroutines of one event  *)
(* loop: a step runs from one await to the next                            *)

MaxCalls == 3
CacheTtlS == 3

Callers == {"c1", "c2"}

\* what a GET may end in: a response with a status, or an exception
Response(s) == [kind |-> "response", status |-> s]
ProbeTimeout == [kind |-> "timeout", status |-> 0]
ProbeRefused == [kind |-> "connection_error", status |-> 0]

\* the outcomes of a probe round: GET /health, GET /ready
ProbePairs ==
    {<<Response(200), Response(200)>>, <<Response(299), Response(300)>>,
     <<Response(199), Response(200)>>, <<Response(200), ProbeTimeout>>,
     <<ProbeRefused, Response(200)>>}

\* str(e): asyncio.TimeoutError has no message
StrOfException(kind) == IF kind = "timeout" THEN "" ELSE "Cannot connect to host"

WebGetOkUpTo300(outcome) ==
    IF outcome.kind = "response"
    THEN [ok |-> 200 <= outcome.status /\ outcome.status <= 300,
          status |-> Some(outcome.status), error |-> None]
    ELSE [ok |-> FALSE, status |-> None, error |-> Some(StrOfException(outcome.kind))]

\* WebClient._get (duration_ms and request_id are left out)
WebGet(outcome) ==
    IF outcome.kind = "response"
    THEN [ok |-> 200 <= outcome.status /\ outcome.status < 300,
          status |-> Some(outcome.status), error |-> None]
    ELSE [ok |-> FALSE, status |-> None, error |-> Some(StrOfException(outcome.kind))]

DecideReadyFirst(health, ready) ==
    IF ~ready.ok THEN [allowed |-> FALSE, reason |-> "WEB_NOT_READY"]
    ELSE IF ~health.ok THEN [allowed |-> FALSE, reason |-> "WEB_UNAVAILABLE"]
    ELSE [allowed |-> TRUE, reason |-> "OK"]

\* WebGuard.decide, after check_health_ready()
Decide(health, ready) ==
    IF ~health.ok THEN [allowed |-> FALSE, reason |-> "WEB_UNAVAILABLE"]
    ELSE IF ~ready.ok THEN [allowed |-> FALSE, reason |-> "WEB_NOT_READY"]
    ELSE [allowed |-> TRUE, reason |-> "OK"]

UseCacheWhenForced(force, cache, at) ==
    cache # None /\ (at - cache[1][1]) <= CacheTtlS

\* if not force and self._cache: ... if (now - ts) <= self.cache_ttl_s
UseCache(force, cache, at) ==
    ~force /\ cache # None /\ (at - cache[1][1]) <= CacheTtlS

NoCall == [pc |-> "idle", force |-> FALSE, started |-> 0, seen |-> None, waited |-> FALSE]

WcIdle ==
    /\ wc_cache = None
    /\ wc_lock = None
    /\ wc_waiters = <<>>
    /\ wc_call = [c \in Callers |-> NoCall]
    /\ wc_ret = None
    /\ wc_probe_h = None
    /\ wc_h = [calls |-> 0, rounds |-> 0, together |-> TRUE, first_at |-> 0]

\* what check_health_ready returns; a call without force is taken to
\* be WebGuard.decide's, which goes on to its decision
Returned(call, probed, health, ready) ==
    Some([force |-> call.force, started |-> call.started,
          seen |-> call.seen, waited |-> call.waited, probed |-> probed,
          health |-> health, ready |-> ready,
          decision |-> IF call.force THEN None ELSE Some(Decide(health, ready))])

\* check_health_ready, from the lock's acquisition to the first await: the
\* cached pair is returned and the lock released, or the probes are started.
\* h: the history with this call counted
Enter(c, call, h) ==
    IF UseCache(call.force, wc_cache, call.started)
    THEN /\ wc_ret' = Returned([call EXCEPT !.seen = wc_cache], FALSE,
                               wc_cache[1][2], wc_cache[1][3])
         /\ wc_call' = [wc_call EXCEPT ![c] = NoCall]
         /\ wc_lock' = None
         /\ wc_h' = h
    ELSE /\ wc_call' = [wc_call EXCEPT ![c] = [call EXCEPT !.pc = "probing", !.seen = wc_cache]]
         /\ wc_lock' = Some(c)
         /\ wc_h' = [h EXCEPT !.rounds = @ + 1]
         /\ UNCHANGED wc_ret

\* asyncio.Lock.acquire does not wait when the lock is free and nobody waits
LockFree(lock, waiters) == lock = None /\ waiters = <<>>

\* check_health_ready(force) is called: now = time.time(), then the lock
CheckHealthReady(c, force) ==
    /\ wc_call[c].pc = "idle"
    /\ wc_h.calls < MaxCalls
    /\ \E call \in {[NoCall EXCEPT !.force = force, !.started = now]} :
       \E h \in {[wc_h EXCEPT !.calls = @ + 1,
                              !.together = @ /\ ~force /\ (wc_h.calls = 0 \/ now = wc_h.first_at),
                              !.first_at = IF wc_h.calls = 0 THEN now ELSE @]} :
          IF LockFree(wc_lock, wc_waiters)
          THEN Enter(c, call, h) /\ UNCHANGED wc_waiters
          ELSE /\ wc_call' = [wc_call EXCEPT ![c] = [call EXCEPT !.pc = "waiting", !.waited = TRUE]]
               /\ wc_waiters' = Append(wc_waiters, c)
               /\ wc_h' = h
               /\ UNCHANGED <<wc_lock, wc_ret>>
    /\ UNCHANGED <<wc_cache, wc_probe_h, now>>

\* the first waiter gets the released lock
Acquire(c) ==
    /\ wc_call[c].pc = "waiting"
    /\ wc_lock = None
    /\ wc_waiters # <<>> /\ Head(wc_waiters) = c
    /\ wc_waiters' = Tail(wc_waiters)
    /\ Enter(c, wc_call[c], wc_h)
    /\ UNCHANGED <<wc_cache, wc_probe_h, now>>

\* asyncio.gather(health_task, ready_task) is done: the cache is replaced,
\* the lock released, the pair returned
ProbesDone(c, pair) ==
    /\ wc_call[c].pc = "probing"
    /\ \E health \in {WebGet(pair[1])} :
       \E ready \in {WebGet(pair[2])} :
          /\ wc_cache' = Some(<<wc_call[c].started, health, ready>>)
          /\ wc_ret' = Returned(wc_call[c], TRUE, health, ready)
    /\ wc_probe_h' = Some(pair)
    /\ wc_call' = [wc_call EXCEPT ![c] = NoCall]
    /\ wc_lock' = None
    /\ UNCHANGED <<wc_waiters, wc_h, now>>

WcTick ==
    /\ now < MaxTime
    /\ now' = now + 1
    /\ UNCHANGED wcVars

----------------------------------------------------------------------------
(* Functions called on their own: the arguments are drawn, the call made *)

CallInitWith(args) ==
    /\ call_args \in args
    /\ call_op = "none"
    /\ call_ret = None

CallIdle == CallInitWith({<<>>})

\* every result _get can give
WebCheckResults ==
    {WebGet(o) : o \in {Response(199), Response(200), Response(299), Response(300),
                        ProbeTimeout, ProbeRefused}}

\* WebReadyFilter(friendly_name): None, an empty name, a command's name
FriendlyNames == {None, Some(""), Some("/needs_web")}

RequireWebArgs ==
    [health : WebCheckResults, ready : WebCheckResults, friendly_name : FriendlyNames]

\* the text require_web answers with
GuardText(reason, friendly_name) ==
    [prefix |-> IF friendly_name # None /\ friendly_name[1] # ""
                THEN friendly_name ELSE None,
     body |-> IF reason = "WEB_UNAVAILABLE" THEN "web does not answer"
              ELSE "web is not ready yet"]

\* WebGuard.require_web (and WebReadyFilter.__call__, which returns its
\* result); health, ready: what check_health_ready() gave decide
RequireWeb ==
    /\ call_op = "none"
    /\ call_op' = "require_web"
    /\ \E d \in {Decide(call_args.health, call_args.ready)} :
          call_ret' = Some([decision |-> d,
                            ret |-> d.allowed,
                            answers |-> IF d.allowed THEN <<>>
                                        ELSE <<GuardText(d.reason, call_args.friendly_name)>>])
    /\ UNCHANGED call_args

\* tickets for match_escalation_filter: those of the escalation pool, one
\* without a Name, one whose ServiceId is no integer, ones with the other
\* id fields
FilterItems ==
    EscItemPool \cup
    { [Id |-> PyInt(3), ServiceId |-> PyInt(101)],
      [Id |-> PyInt(4), Name |-> NameB, ServiceId |-> PyBadStr],
      [Id |-> PyInt(5), Name |-> NameZ, CustomerId |-> PyInt(7), CreatorId |-> PyNumStr(8)],
      [Id |-> PyInt(6), Name |-> NameZ, CreatorCompanyId |-> PyInt(9)] }

Filters ==
    { EmptyFilter,
      [EmptyFilter EXCEPT !.keywords = {<<"a", "b">>}],
      [EmptyFilter EXCEPT !.keywords = {<<"A">>, <<"z">>}],
      [EmptyFilter EXCEPT !.service_ids = {101}],
      [EmptyFilter EXCEPT !.keywords = {<<"z">>}, !.service_ids = {101, 102}],
      [EmptyFilter EXCEPT !.customer_ids = {7}],
      [EmptyFilter EXCEPT !.creator_ids = {8}, !.customer_ids = {1}],
      [EmptyFilter EXCEPT !.creator_company_ids = {9}] }

MatchFilterArgs == [item : FilterItems, flt : Filters]

\* match_escalation_filter(item, flt, ...) is called
MatchFilter ==
    /\ call_op = "none"
    /\ call_op' = "match_escalation_filter"
    /\ call_ret' = Some(MatchEscalationFilter(call_args.item, call_args.flt))
    /\ UNCHANGED call_args

----------------------------------------------------------------------------
(* web/utils/diff.py: the diff of two JSON configs                         *)

JsonNone == [kind |-> "none"]
JsonInt(n) == [kind |-> "int", v |-> n]
JsonList(s) == [kind |-> "list", v |-> s]
JsonDict(f) == [kind |-> "dict", v |-> f]

\* the keys the configs use, in sorted() order
SortedKeys == <<"x", "y">>

\* Python's a == b on such values
RECURSIVE PyEq(_, _)
PyEq(a, b) ==
    /\ a.kind = b.kind
    /\ CASE a.kind = "none" -> TRUE
         [] a.kind = "int" -> a.v = b.v
         [] a.kind = "list" -> /\ Len(a.v) = Len(b.v)
                               /\ \A i \in DOMAIN a.v : PyEq(a.v[i], b.v[i])
         [] a.kind = "dict" -> /\ DOMAIN a.v = DOMAIN b.v
                               /\ \A k \in DOMAIN a.v : PyEq(a.v[k], b.v[k])

\* dict.get(k): the value, None for a key that is not there
DictGet(d, k) == IF k \in DOMAIN d.v THEN d.v[k] ELSE JsonNone

\* f"{path}.{k}" if path else str(k)
NewPath(path, k) == IF path # "" THEN path \o "." \o k ELSE k

RECURSIVE DiffDicts(_, _, _)
RECURSIVE DiffOverKeys(_, _, _, _)

\* for k in keys: changes.extend(diff_dicts(a.get(k), b.get(k), new_path)),
\* from the i-th key of the sorted order on
DiffOverKeys(a, b, path, i) ==
    IF i > Len(SortedKeys) THEN <<>>
    ELSE LET k == SortedKeys[i]
         IN  (IF k \in DOMAIN a.v \cup DOMAIN b.v
              THEN DiffDicts(DictGet(a, k), DictGet(b, k), NewPath(path, k))
              ELSE <<>>)
             \o DiffOverKeys(a, b, path, i + 1)

\* diff_dicts(a, b, path)
DiffDicts(a, b, path) ==
    IF a.kind = "dict" /\ b.kind = "dict"
    THEN DiffOverKeys(a, b, path, 1)
    ELSE IF a.kind = "list" /\ b.kind = "list"
    THEN IF PyEq(a, b) THEN <<>>
         ELSE <<[path |-> path, from |-> a, to |-> b]>>
    ELSE IF ~PyEq(a, b)
    THEN <<[path |-> path, from |-> a, to |-> b]>>
    ELSE <<>>

\* the values of a config: scalars (None among them), lists, and dicts one
\* or two levels deep
JsonLeaves == {JsonNone, JsonInt(1), JsonInt(2), JsonList(<<>>), JsonList(<<JsonInt(1)>>)}

JsonInner ==
    {JsonNone, JsonInt(1), JsonList(<<JsonInt(1)>>),
     JsonDict(<<>>), JsonDict([x |-> JsonNone])}

JsonDicts ==
    {JsonDict(f) : f \in UNION {[dom -> JsonInner] : dom \in SUBSET SeqRange(SortedKeys)}}

DiffArgs == (JsonLeaves \cup JsonDicts) \X (JsonLeaves \cup JsonDicts)

\* one call diff_dicts(a, b)
DiffCall ==
    /\ call_op = "none"
    /\ call_op' = "diff_dicts"
    /\ call_ret' = DiffDicts(call_args[1], call_args[2], "")
    /\ UNCHANGED call_args

----------------------------------------------------------------------------
(* The alert paths as coroutines of one event loop: an invocation runs from *)
(* one await to the next, and other invocations run while it waits          *)

Tasks == {"t1", "t2"}

\* the paths that await before they read the clock: check_web its probes,
\* check_rollbacks its get_rollbacks
AwaitsFirst == {"web", "rollback"}

NoTask == [pc |-> "idle", kind |-> "nodest"]

TaskIdle == obs_tasks = [t \in Tasks |-> NoTask]

LastAlertAtLeftForLater(last, t) == last

\* self._polling_state.last_*_alert_at = now, before the await of send_message
LastAlertAtBeforeSend(last, t) == Some(t)

\* check_web or check_rollbacks is invoked and waits for its answer
TaskBegin(t, k) ==
    /\ obs_tasks[t].pc = "idle"
    /\ k \in AwaitsFirst
    /\ obs_attempts < MaxAttempts
    /\ obs_attempts' = obs_attempts + 1
    /\ obs_tasks' = [obs_tasks EXCEPT ![t] = [pc |-> "awaiting", kind |-> k]]
    /\ obs_op' = k \o "_awaiting"
    /\ UNCHANGED <<last_alert_at, skipped, tickets_without_destination_total,
                   last_ticket_without_destination_at, web_interval, web_cache,
                   admin_dest, sent_h, last_sent_h, gap_h, suppressed_h,
                   checks_h, now>>

\* an alert path from now = time.time() to its next await or its return;
\* degraded: the path found what it alerts on (handle_no_destination always)
TaskCheck(t, k, degraded) ==
    /\ IF k \in AwaitsFirst
       THEN /\ obs_tasks[t] = [pc |-> "awaiting", kind |-> k]
            /\ UNCHANGED obs_attempts
       ELSE /\ obs_tasks[t].pc = "idle"
            /\ obs_attempts < MaxAttempts
            /\ obs_attempts' = obs_attempts + 1
    /\ k = "nodest" => degraded
    /\ IF k = "nodest"
       THEN /\ tickets_without_destination_total' = tickets_without_destination_total + 1
            /\ last_ticket_without_destination_at' = Some(now)
       ELSE UNCHANGED <<tickets_without_destination_total,
                        last_ticket_without_destination_at>>
    /\ IF ~degraded
       THEN /\ obs_op' = k \o "_no_alert"
            /\ obs_tasks' = [obs_tasks EXCEPT ![t] = NoTask]
            /\ NoteNothing
            /\ UNCHANGED <<skipped, last_alert_at>>
       ELSE IF RateLimited(last_alert_at[k], now, MinInterval(k))
       THEN /\ skipped' = [skipped EXCEPT ![k] = @ + 1]
            /\ obs_op' = k \o "_skipped"
            /\ obs_tasks' = [obs_tasks EXCEPT ![t] = NoTask]
            /\ NoteSuppressed(k)
            /\ UNCHANGED last_alert_at
       ELSE IF ~admin_dest
       THEN \* handle_no_destination has written last_admin_alert_at by now
            /\ last_alert_at' = IF k = "nodest"
                                THEN [last_alert_at EXCEPT ![k] = Some(now)]
                                ELSE last_alert_at
            /\ obs_op' = k \o "_no_admin_dest"
            /\ obs_tasks' = [obs_tasks EXCEPT ![t] = NoTask]
            /\ NoteNothing
            /\ UNCHANGED skipped
       ELSE IF k = "web" /\ CallRaisesTypeError(CheckWebKwargs, WebAlertTextParams)
       THEN /\ obs_op' = "web_type_error"
            /\ obs_tasks' = [obs_tasks EXCEPT ![t] = NoTask]
            /\ NoteNothing
            /\ UNCHANGED <<skipped, last_alert_at>>
       ELSE /\ last_alert_at' =
                 [last_alert_at EXCEPT ![k] = LastAlertAtBeforeSend(@, now)]
            /\ obs_op' = k \o "_sending"
            /\ obs_tasks' = [obs_tasks EXCEPT ![t] = [pc |-> "sending", kind |-> k]]
            /\ NoteSent(k)
            /\ UNCHANGED skipped
    /\ UNCHANGED <<web_interval, web_cache, admin_dest, checks_h, now>>

\* await self._bot.send_message(...) is over: it returned, or raised and the
\* exception was logged
TaskSendDone(t, send_ok) ==
    /\ obs_tasks[t].pc = "sending"
    /\ obs_op' = obs_tasks[t].kind \o (IF send_ok THEN "_sent" ELSE "_send_failed")
    /\ obs_tasks' = [obs_tasks EXCEPT ![t] = NoTask]
    /\ UNCHANGED <<last_alert_at, skipped, tickets_without_destination_total,
                   last_ticket_without_destination_at, web_interval, web_cache,
                   admin_dest, obs_attempts, sent_h, last_sent_h, gap_h,
                   suppressed_h, checks_h, now>>

MoreIdle == SnapIdle /\ EnvIdle /\ RdyIdle /\ WcIdle /\ CallIdle /\ TaskIdle

ExtIdle == CfgIdle /\ NtfIdle /\ MoreIdle

----------------------------------------------------------------------------
(* Specifications: each subsystem runs while the others rest *)

PollIdle == PollInit
EscIdle == EscInitWith({FALSE}, {<<>>})
ObsIdle == ObsInitWith(WebAlertMinIntervalS, {FALSE})

PollSpecNext ==
    \/ PollIterate /\ UNCHANGED <<escVars, obsVars, extVars, now>>
    \/ PollExit /\ UNCHANGED <<escVars, obsVars, extVars, now>>
    \/ FetchNotOk /\ UNCHANGED <<escVars, obsVars, extVars, now>>
    \/ FetchRaise /\ UNCHANGED <<escVars, obsVars, extVars, now>>
    \/ (\E items \in ItemLists : FetchOk(items)) /\ UNCHANGED <<escVars, obsVars, extVars, now>>
    \/ NotifyOk /\ UNCHANGED <<escVars, obsVars, extVars, now>>
    \/ NotifyRaise /\ UNCHANGED <<escVars, obsVars, extVars, now>>
    \/ SleepEnd /\ UNCHANGED <<escVars, obsVars, extVars, now>>
    \/ SetStop /\ UNCHANGED <<escVars, obsVars, extVars, now>>

PollSpecInit == PollInit /\ EscIdle /\ ObsIdle /\ ExtIdle /\ now = 0

PollSpec == PollSpecInit /\ [][PollSpecNext]_vars

\* the fetches of the runs that study the stop: an empty queue, one ticket,
\* two tickets
StopItemLists ==
    { <<>>,
      << [Id |-> PyInt(1), Name |-> NameA, ServiceId |-> PyMissing] >>,
      << [Id |-> PyInt(1), Name |-> NameA, ServiceId |-> PyMissing],
         [Id |-> PyInt(2), Name |-> NameB, ServiceId |-> PyNumStr(101)] >> }

StopSpecNext ==
    \/ PollIterate /\ UNCHANGED <<escVars, obsVars, extVars, now>>
    \/ PollExit /\ UNCHANGED <<escVars, obsVars, extVars, now>>
    \/ FetchNotOk /\ UNCHANGED <<escVars, obsVars, extVars, now>>
    \/ FetchRaise /\ UNCHANGED <<escVars, obsVars, extVars, now>>
    \/ (\E items \in StopItemLists : FetchOk(items)) /\ UNCHANGED <<escVars, obsVars, extVars, now>>
    \/ NotifyOk /\ UNCHANGED <<escVars, obsVars, extVars, now>>
    \/ NotifyRaise /\ UNCHANGED <<escVars, obsVars, extVars, now>>
    \/ SleepEnd /\ UNCHANGED <<escVars, obsVars, extVars, now>>
    \/ SetStop /\ UNCHANGED <<escVars, obsVars, extVars, now>>

\* the steps the event loop takes for the poller task once they are possible:
\* the awaited get_open and notify resolve (each has its own timeout), the
\* sleep ends at the stop or at its timeout, the while condition is evaluated
PollProgress ==
    /\ \/ PollExit
       \/ FetchNotOk
       \/ FetchRaise
       \/ \E items \in StopItemLists : FetchOk(items)
       \/ NotifyOk
       \/ NotifyRaise
       \/ SleepEnd
    /\ UNCHANGED <<escVars, obsVars, extVars, now>>

StopSpecInit == PollInit /\ EscIdle /\ ObsIdle /\ ExtIdle /\ now = 0

StopSpec == StopSpecInit /\ [][StopSpecNext]_vars /\ WF_vars(PollProgress)

\* the poller as main() runs and ends it: the stop comes with the cancel, so
\* the while condition never sees stop_event set
ShutdownSpecNext ==
    \/ PollIterate /\ UNCHANGED <<escVars, obsVars, extVars, now>>
    \/ FetchNotOk /\ UNCHANGED <<escVars, obsVars, extVars, now>>
    \/ FetchRaise /\ UNCHANGED <<escVars, obsVars, extVars, now>>
    \/ (\E items \in StopItemLists : FetchOk(items)) /\ UNCHANGED <<escVars, obsVars, extVars, now>>
    \/ NotifyOk /\ UNCHANGED <<escVars, obsVars, extVars, now>>
    \/ NotifyRaise /\ UNCHANGED <<escVars, obsVars, extVars, now>>
    \/ SleepEnd /\ UNCHANGED <<escVars, obsVars, extVars, now>>
    \/ ShutdownCancel /\ UNCHANGED <<escVars, obsVars, extVars, now>>

ShutdownSpecInit == PollInit /\ EscIdle /\ ObsIdle /\ ExtIdle /\ now = 0

ShutdownSpec == ShutdownSpecInit /\ [][ShutdownSpecNext]_vars

ConfigSpecNext ==
    \/ InitDb /\ UNCHANGED <<pollVars, escVars, obsVars, ntfVars, moreVars, now>>
    \/ ReadConfig(TRUE) /\ UNCHANGED <<pollVars, escVars, obsVars, ntfVars, moreVars, now>>
    \/ (\E w \in Writers, c \in ClientConfigs : WriteRejected(w, c))
            /\ UNCHANGED <<pollVars, escVars, obsVars, ntfVars, moreVars, now>>
    \/ (\E w \in Writers, c \in ClientConfigs : Write(w, c))
            /\ UNCHANGED <<pollVars, escVars, obsVars, ntfVars, moreVars, now>>
    \/ (\E w \in Writers, to \in 0..(SeedVersion + MaxWrites) : Rollback(w, to))
            /\ UNCHANGED <<pollVars, escVars, obsVars, ntfVars, moreVars, now>>
    \/ (\E w \in Writers : TxCommit(w)) /\ UNCHANGED <<pollVars, escVars, obsVars, ntfVars, moreVars, now>>

ConfigSpecInit == PollIdle /\ EscIdle /\ ObsIdle /\ CfgIdle /\ NtfIdle /\ MoreIdle /\ now = 0

ConfigSpec == ConfigSpecInit /\ [][ConfigSpecNext]_vars

SnapSpecNext ==
    SnapshotPair
        /\ UNCHANGED <<pollVars, escVars, obsVars, cfgVars, ntfVars, envVars, rdyVars, wcVars, callVars, taskVars, now>>

SnapSpecInit ==
    /\ PollIdle /\ EscIdle /\ ObsIdle /\ CfgIdle /\ NtfIdle /\ SnapInit /\ EnvIdle /\ RdyIdle
    /\ WcIdle /\ CallIdle /\ TaskIdle
    /\ now = 0

SnapSpec == SnapSpecInit /\ [][SnapSpecNext]_vars

\* the probes of a check_web that finds /ready failing in every round
FailingProbes == [i \in 1..WebAttempts |-> <<TRUE, FALSE>>]

AdminSpecNext ==
    \/ (\E send_ok \in BOOLEAN : HandleNoDestination(send_ok) /\ AlertDestination)
            /\ UNCHANGED <<pollVars, escVars, cfgVars, ntfVars, snapVars, rdyVars, wcVars, callVars, taskVars, env_admin_alert, env_alert>>
    \/ (\E send_ok \in BOOLEAN :
            /\ obs_attempts < MaxAttempts
            /\ CheckWeb(FailingProbes, send_ok) /\ UNCHANGED checks_h
            /\ AlertDestination)
            /\ UNCHANGED <<pollVars, escVars, cfgVars, ntfVars, snapVars, rdyVars, wcVars, callVars, taskVars, env_admin_alert, env_alert>>
    \/ (\E send_ok \in BOOLEAN : CheckRedis("raises", send_ok) /\ AlertDestination)
            /\ UNCHANGED <<pollVars, escVars, cfgVars, ntfVars, snapVars, rdyVars, wcVars, callVars, taskVars, env_admin_alert, env_alert>>
    \/ (\E send_ok \in BOOLEAN :
            CheckRollbacks(Some(RollbackThreshold), send_ok) /\ AlertDestination)
            /\ UNCHANGED <<pollVars, escVars, cfgVars, ntfVars, snapVars, rdyVars, wcVars, callVars, taskVars, env_admin_alert, env_alert>>
    \/ (\E admin \in AdminAlertEnvs, general \in AlertEnvs : Configure(admin, general))
            /\ UNCHANGED <<pollVars, escVars, cfgVars, ntfVars, snapVars, rdyVars, wcVars, callVars, taskVars>>

AdminSpecInit ==
    /\ PollIdle /\ EscIdle /\ ObsInit /\ CfgIdle /\ NtfIdle /\ SnapIdle /\ EnvInit /\ RdyIdle
    /\ WcIdle /\ CallIdle /\ TaskIdle
    /\ admin_dest = (ParseAdminAlertDestFromEnv(env_admin_alert, env_alert) # None)
    /\ now = 0

AdminSpec == AdminSpecInit /\ [][AdminSpecNext]_vars

\* read_config over every content of the table, the database failing or not
ReadSpecNext ==
    \/ InitDb /\ UNCHANGED <<pollVars, escVars, obsVars, ntfVars, moreVars, now>>
    \/ (\E db_ok \in BOOLEAN : ReadConfig(db_ok))
            /\ UNCHANGED <<pollVars, escVars, obsVars, ntfVars, moreVars, now>>

ReadSpecInit ==
    /\ PollIdle /\ EscIdle /\ ObsIdle /\ NtfIdle /\ MoreIdle /\ now = 0
    /\ cfg_row \in TableRows
    /\ cfg_bodies = <<>>
    /\ cfg_lock = None
    /\ cfg_tx = [w \in Writers |-> NoTx]
    /\ cfg_op = [op |-> "none", w |-> "", version |-> 0]
    /\ cfg_read = None
    /\ cfg_writes_h = <<>>

ReadSpec == ReadSpecInit /\ [][ReadSpecNext]_vars

WebClientSpecNext ==
    \/ (\E c \in Callers, force \in BOOLEAN : CheckHealthReady(c, force))
            /\ UNCHANGED <<pollVars, escVars, obsVars, cfgVars, ntfVars, snapVars, envVars, rdyVars, callVars, taskVars>>
    \/ (\E c \in Callers : Acquire(c))
            /\ UNCHANGED <<pollVars, escVars, obsVars, cfgVars, ntfVars, snapVars, envVars, rdyVars, callVars, taskVars>>
    \/ (\E c \in Callers, pair \in ProbePairs : ProbesDone(c, pair))
            /\ UNCHANGED <<pollVars, escVars, obsVars, cfgVars, ntfVars, snapVars, envVars, rdyVars, callVars, taskVars>>
    \/ WcTick
            /\ UNCHANGED <<pollVars, escVars, obsVars, cfgVars, ntfVars, snapVars, envVars, rdyVars, callVars, taskVars>>

WebClientSpecInit ==
    /\ PollIdle /\ EscIdle /\ ObsIdle /\ CfgIdle /\ NtfIdle /\ SnapIdle /\ EnvIdle /\ RdyIdle
    /\ WcIdle /\ CallIdle /\ TaskIdle
    /\ now = 0

WebClientSpec == WebClientSpecInit /\ [][WebClientSpecNext]_vars

FilterSpecNext ==
    MatchFilter
        /\ UNCHANGED <<pollVars, escVars, obsVars, cfgVars, ntfVars, snapVars, envVars, rdyVars, wcVars, taskVars, now>>

FilterSpecInit ==
    /\ PollIdle /\ EscIdle /\ ObsIdle /\ CfgIdle /\ NtfIdle /\ SnapIdle /\ EnvIdle /\ RdyIdle
    /\ WcIdle /\ TaskIdle /\ CallInitWith(MatchFilterArgs)
    /\ now = 0

FilterSpec == FilterSpecInit /\ [][FilterSpecNext]_vars

\* diff_dicts called once on each pair of configs
DiffSpecNext ==
    DiffCall
        /\ UNCHANGED <<pollVars, escVars, obsVars, cfgVars, ntfVars, snapVars, envVars, rdyVars, wcVars, taskVars, now>>

DiffSpecInit ==
    /\ PollIdle /\ EscIdle /\ ObsIdle /\ CfgIdle /\ NtfIdle /\ SnapIdle /\ EnvIdle /\ RdyIdle
    /\ WcIdle /\ TaskIdle /\ CallInitWith(DiffArgs)
    /\ now = 0

DiffSpec == DiffSpecInit /\ [][DiffSpecNext]_vars

\* the alert paths invoked by two tasks that interleave at their awaits
TaskSpecNext ==
    \/ (\E t \in Tasks, k \in AwaitsFirst : TaskBegin(t, k))
            /\ UNCHANGED <<pollVars, escVars, cfgVars, ntfVars, snapVars, envVars, rdyVars, wcVars, callVars>>
    \/ (\E t \in Tasks, k \in Kinds, degraded \in BOOLEAN : TaskCheck(t, k, degraded))
            /\ UNCHANGED <<pollVars, escVars, cfgVars, ntfVars, snapVars, envVars, rdyVars, wcVars, callVars>>
    \/ (\E t \in Tasks, send_ok \in BOOLEAN : TaskSendDone(t, send_ok))
            /\ UNCHANGED <<pollVars, escVars, cfgVars, ntfVars, snapVars, envVars, rdyVars, wcVars, callVars>>
    \/ (ObsTick /\ UNCHANGED obs_tasks)
            /\ UNCHANGED <<pollVars, escVars, cfgVars, ntfVars, snapVars, envVars, rdyVars, wcVars, callVars>>

TaskSpecInit ==
    /\ PollIdle /\ EscIdle /\ ObsInit /\ CfgIdle /\ NtfIdle /\ SnapIdle /\ EnvIdle /\ RdyIdle
    /\ WcIdle /\ CallIdle /\ TaskIdle
    /\ now = 0

TaskSpec == TaskSpecInit /\ [][TaskSpecNext]_vars

GuardSpecNext ==
    RequireWeb
        /\ UNCHANGED <<pollVars, escVars, obsVars, cfgVars, ntfVars, snapVars, envVars, rdyVars, wcVars, taskVars, now>>

GuardSpecInit ==
    /\ PollIdle /\ EscIdle /\ ObsIdle /\ CfgIdle /\ NtfIdle /\ SnapIdle /\ EnvIdle /\ RdyIdle
    /\ WcIdle /\ TaskIdle /\ CallInitWith(RequireWebArgs)
    /\ now = 0

GuardSpec == GuardSpecInit /\ [][GuardSpecNext]_vars

ReadySpecNext ==
    Ready
        /\ UNCHANGED <<pollVars, escVars, obsVars, cfgVars, ntfVars, snapVars, envVars, wcVars, callVars, taskVars, now>>

ReadySpecInit ==
    /\ PollIdle /\ EscIdle /\ ObsIdle /\ CfgIdle /\ NtfIdle /\ SnapIdle /\ EnvIdle /\ RdyInit
    /\ WcIdle /\ CallIdle /\ TaskIdle
    /\ now = 0

ReadySpec == ReadySpecInit /\ [][ReadySpecNext]_vars

NotifySpecNext ==
    \/ (\E items \in NotifyItemLists, refresh_ok \in BOOLEAN :
            \E chats \in [SendTargets(items, refresh_ok) -> SendOutcomes],
               send_ok \in (IF SendTargets(items, refresh_ok) = {} THEN BOOLEAN ELSE {TRUE}) :
                NotifyMain(items, refresh_ok, chats, send_ok))
            /\ UNCHANGED <<pollVars, escVars, cfgVars, moreVars>>
    \/ (\E routing \in RoutingConfigs : ServerConfigChange(routing))
            /\ UNCHANGED <<pollVars, escVars, obsVars, cfgVars, moreVars, now>>

NotifySpecInit == PollIdle /\ EscIdle /\ ObsInit /\ CfgIdle /\ NtfInit /\ MoreIdle /\ now = 0

NotifySpec == NotifySpecInit /\ [][NotifySpecNext]_vars

EscSpecNext ==
    \/ (\E items \in EscItemLists : Process(items)) /\ UNCHANGED <<pollVars, obsVars, extVars>>
    \/ Restart /\ UNCHANGED <<pollVars, obsVars, extVars>>
    \/ Tick /\ UNCHANGED <<pollVars, obsVars, extVars>>

EscSpecInit == PollIdle /\ EscInit /\ ObsIdle /\ ExtIdle /\ now = 0

EscSpec == EscSpecInit /\ [][EscSpecNext]_vars

\* the escalation engine over a store whose set_json may raise
EscSaveSpecNext ==
    \/ (\E items \in EscItemLists, save_ok \in BOOLEAN : ProcessSaving(items, save_ok))
            /\ UNCHANGED <<pollVars, obsVars, extVars>>
    \/ Restart /\ UNCHANGED <<pollVars, obsVars, extVars>>
    \/ Tick /\ UNCHANGED <<pollVars, obsVars, extVars>>

EscSaveSpecInit ==
    /\ PollIdle /\ ObsIdle /\ ExtIdle /\ now = 0
    /\ EscInitWith({TRUE}, {<<[dest |-> 10, flt |-> [EmptyFilter EXCEPT !.service_ids = {101}]]>>})

EscSaveSpec == EscSaveSpecInit /\ [][EscSaveSpecNext]_vars

EscLoadSpecNext ==
    \/ (\E items \in EscItemLists : Process(items)) /\ UNCHANGED <<pollVars, obsVars, extVars>>
    \/ Restart /\ UNCHANGED <<pollVars, obsVars, extVars>>
    \/ Tick /\ UNCHANGED <<pollVars, obsVars, extVars>>

EscLoadSpecInit == PollIdle /\ EscLoadInit /\ ObsIdle /\ ExtIdle /\ now = 0

EscLoadSpec == EscLoadSpecInit /\ [][EscLoadSpecNext]_vars

ObsSpecNext ==
    \/ (\E send_ok \in BOOLEAN : HandleNoDestination(send_ok))
            /\ UNCHANGED <<pollVars, escVars, extVars>>
    \/ (\E probes \in ProbeLists, send_ok \in BOOLEAN :
            obs_attempts < MaxAttempts /\ CheckWeb(probes, send_ok) /\ UNCHANGED checks_h)
            /\ UNCHANGED <<pollVars, escVars, extVars>>
    \/ (\E ping \in PingOutcomes, send_ok \in BOOLEAN : CheckRedis(ping, send_ok))
            /\ UNCHANGED <<pollVars, escVars, extVars>>
    \/ (\E res \in RollbackResults, send_ok \in BOOLEAN : CheckRollbacks(res, send_ok))
            /\ UNCHANGED <<pollVars, escVars, extVars>>
    \/ ObsTick /\ UNCHANGED <<pollVars, escVars, extVars>>

ObsSpecInit == PollIdle /\ EscIdle /\ ObsInit /\ ExtIdle /\ now = 0

ObsSpec == ObsSpecInit /\ [][ObsSpecNext]_vars

DegradedSpecNext ==
    \/ DegradedCheck /\ UNCHANGED <<pollVars, escVars, extVars>>
    \/ DegradedMinute /\ UNCHANGED <<pollVars, escVars, extVars>>

DegradedSpecInit == PollIdle /\ EscIdle /\ DegradedInit /\ ExtIdle /\ now = 0

DegradedSpec == DegradedSpecInit /\ [][DegradedSpecNext]_vars

----------------------------------------------------------------------------
(* Properties *)

\* the valid ticket ids of a fetch, read off the items: integer Id > 0
FetchedIdSet(items) ==
    {items[i].Id.v : i \in {j \in DOMAIN items :
                                items[j].Id.kind \in {"int", "numstr"} /\ items[j].Id.v > 0}}

\* the (id, name) pairs of the valid items of a fetch
FetchedNames(items) ==
    {<<items[i].Id.v, items[i].Name>> :
        i \in {j \in DOMAIN items :
                  items[j].Id.kind \in {"int", "numstr"} /\ items[j].Id.v > 0}}

\* C1: after a successful fetch the poller calls notify if and only if no
\* snapshot was sent yet or the set of valid ids of the fetch differs from the
\* ids of the last sent snapshot (a rename alone sends nothing), and the
\* message it passes lists the ids with the names of the current fetch.
C1_SendIffCompositionChanged ==
    /\ pc = "notify" =>
          /\ \/ last_sent_ids = None
             \/ FetchedIdSet(res_items) # SeqRange(last_sent_ids[1])
          /\ SeqRange(notify_text[1].lines) = FetchedNames(res_items)
    /\ (pc = "sleep" /\ iter_result = "ok_nosend") =>
          /\ last_sent_ids # None
          /\ FetchedIdSet(res_items) = SeqRange(last_sent_ids[1])

\* a fetch that renamed a ticket of the last message and changed no id: no send
C1_RenameOnlyNoSend ==
    /\ pc = "sleep" /\ iter_result = "ok_nosend"
    /\ FetchedIdSet(res_items) # {}
    /\ notify_text # None
    /\ {l[1] : l \in SeqRange(notify_text[1].lines)} = FetchedIdSet(res_items)
    /\ SeqRange(notify_text[1].lines) # FetchedNames(res_items)

\* C10 as stated: after an iteration whose fetch failed the interval is
\* min(max_backoff, max(base, 2 * previous interval)), and after every
\* iteration whose fetch succeeded it is base.
C10_BackoffAsStated ==
    pc = "sleep" =>
      /\ iter_result \in {"fetch_fail", "fetch_exc"} =>
            interval_s = (IF 2 * prev_interval < BaseIntervalS THEN BaseIntervalS
                          ELSE IF 2 * prev_interval > MaxBackoffS THEN MaxBackoffS
                          ELSE 2 * prev_interval)
      /\ iter_result \in {"ok_nosend", "ok_sent", "notify_exc"} =>
            interval_s = BaseIntervalS

\* C10 amended: as stated when the fetch failed and when the fetch succeeded
\* and notify (if called) returned; when the fetch succeeded and notify raised,
\* the interval is min(max_backoff, max(base, 2 * base)).
C10_BackoffAmended ==
    pc = "sleep" =>
      /\ iter_result \in {"fetch_fail", "fetch_exc"} =>
            interval_s = (IF 2 * prev_interval < BaseIntervalS THEN BaseIntervalS
                          ELSE IF 2 * prev_interval > MaxBackoffS THEN MaxBackoffS
                          ELSE 2 * prev_interval)
      /\ iter_result \in {"ok_nosend", "ok_sent"} => interval_s = BaseIntervalS
      /\ iter_result = "notify_exc" =>
            interval_s = (IF 2 * BaseIntervalS > MaxBackoffS THEN MaxBackoffS
                          ELSE 2 * BaseIntervalS)

\* after a failed iteration had raised the interval, a fetch succeeds and
\* notify raises: the interval is twice the base, not the base
C10_NotifyRaisedAfterBackoff ==
    /\ pc = "sleep" /\ iter_result = "notify_exc"
    /\ prev_interval > BaseIntervalS
    /\ interval_s = 2 * BaseIntervalS

\* the fields of the sent snapshot
SentSnapshot == <<last_sent_snapshot, last_sent_ids, last_sent_count, last_sent_at>>

\* C11: a failure inside an iteration (fetch not ok, fetch raised, notify
\* raised) is recorded (failures and consecutive_failures one more, last_error
\* set), leaves the sent snapshot alone and sends the loop to its sleep, from
\* where it polls again unless it was stopped; the loop ends only by the stop;
\* a successful fetch zeroes consecutive_failures and clears last_error.
C11_FailureRecordedLoopGoesOn ==
    [][ /\ (iter_result = "running" /\ iter_result' \in {"fetch_fail", "fetch_exc", "notify_exc"}) =>
              /\ failures' = failures + 1
              /\ consecutive_failures' = consecutive_failures + 1
              /\ last_error' # None
              /\ SentSnapshot' = SentSnapshot
              /\ pc' = "sleep"
        /\ (pc = "sleep" /\ pc' # "sleep") => pc' = "loop"
        /\ (pc = "loop" /\ pc' # "loop") =>
              IF stop_event THEN pc' = "done" ELSE pc' = "fetch"
        /\ pc' = "done" => stop_event'
        /\ (pc = "fetch" /\ (pc' = "notify" \/ iter_result' = "ok_nosend")) =>
              /\ consecutive_failures' = 0
              /\ last_error' = None ]_vars

\* after failures a new fetch is under way with the last sent snapshot kept
C11_PollsAgainAfterFailures ==
    /\ pc = "fetch" /\ consecutive_failures >= 2
    /\ last_sent_snapshot # None /\ last_error # None

\* C12: the sent snapshot fields change only in the step in which notify
\* returns; a notify that raises leaves them as they were, and every
\* successful fetch whose id set differs from the last sent one (or with
\* nothing sent yet) calls notify with the message of that fetch.
C12_SnapshotOnlyAfterDelivery ==
    [][ /\ SentSnapshot' # SentSnapshot => (pc = "notify" /\ iter_result' = "ok_sent")
        /\ iter_result' = "notify_exc" => SentSnapshot' = SentSnapshot
        /\ (/\ pc = "fetch" /\ pc' # "fetch"
            /\ iter_result' \notin {"fetch_fail", "fetch_exc"}
            /\ \/ last_sent_ids = None
               \/ FetchedIdSet(res_items') # SeqRange(last_sent_ids[1])) =>
              /\ pc' = "notify"
              /\ notify_text' = Some(BuildQueueText(NormalizeTasksForMessage(res_items'))) ]_vars

\* notify raised on a changed queue: the snapshot still is the earlier one
C12_RaisedAndSnapshotKept ==
    /\ pc = "sleep" /\ iter_result = "notify_exc"
    /\ last_sent_ids # None
    /\ FetchedIdSet(res_items) # SeqRange(last_sent_ids[1])

\* C13: once stop_event is set no new fetch is started, the iteration in
\* flight (its fetch, then its notification) runs to its end, the sleep ends
\* and the loop returns at its while condition: the coroutine terminates.
C13_StopTerminates ==
    /\ [][ /\ (pc # "fetch" /\ pc' = "fetch") => ~stop_event
           /\ (pc # "done" /\ pc' = "done") => (pc = "loop" /\ stop_event)
           /\ (stop_event /\ pc = "fetch") => pc' \in {"fetch", "notify", "sleep"}
           /\ (stop_event /\ pc = "notify") => pc' \in {"notify", "sleep"}
           /\ (stop_event /\ pc = "sleep") => pc' \in {"sleep", "loop"} ]_vars
    /\ (stop_event ~> pc = "done")

\* the stop was set while an iteration was in flight, and its notification
\* is still awaited
C13_StoppedDuringIteration == stop_event /\ pc = "notify"

\* C14: on shutdown the poller task is not killed: a fetch or a send in
\* flight when the stop is set runs to its end, and the task exits by itself.
C14_NoForcedKill ==
    pc = "cancelled" => iter_result \notin {"cancelled_fetch", "cancelled_notify"}

\* C15: when an iteration whose fetch succeeded reaches its sleep, the
\* escalation engine has processed the items of that fetch (whether or not a
\* composition message was due).
C15_EscalationOnEveryFetch ==
    (pc = "sleep" /\ iter_result \in {"ok_nosend", "ok_sent"}) =>
        (esc_op = "process" /\ call_ids = FetchedIdSet(res_items))

\* the returns of ticket t since it was first seen, as the engine can know it:
\* by all instances when there is a store, by this instance when there is none
RetSince(t) == IF has_store THEN ret_total_h[t] ELSE ret_inst_h[t]

\* C2: while a ticket is in the items of every call of a manager, at most one
\* of the calls returns it.
C2_OneShot == \A t \in DOMAIN ret_inst_h : ret_inst_h[t] <= 1

\* a call that leaves out nothing, made after the ticket was returned
C2_SecondCallSilent ==
    /\ esc_op = "process"
    /\ \E t \in call_ids : ret_inst_h[t] = 1 /\ t \notin ret_ids /\ call_at > first_seen_h[t] + AfterS

C4_Evicted ==
    esc_op = "process" =>
      \A k \in (DOMAIN seen_at) \cup (DOMAIN escalated_at) : k.v \in call_ids

\* C5: every key of escalated_at is a key of seen_at, in every state reached
\* from an empty store by process calls and restarts.
C5_EscalatedSubsetSeen == (DOMAIN escalated_at) \subseteq (DOMAIN seen_at)

\* a restarted manager that loaded a mark, and a state with an unmarked ticket
C5_LoadedMark ==
    /\ esc_op = "restart"
    /\ escalated_at # <<>>
    /\ DOMAIN escalated_at # DOMAIN seen_at

\* C6: over the same store, a ticket that stays in the queue is returned at
\* most once in total by the old and the new instances.
C6_OneShotAcrossRestarts ==
    has_store => \A t \in DOMAIN ret_total_h : ret_total_h[t] <= 1

\* a new instance is called with a due ticket that an old instance returned
C6_SuppressedAfterRestart ==
    /\ has_store /\ esc_op = "process"
    /\ \E t \in call_ids \cap call_match :
          /\ ret_total_h[t] = 1 /\ ret_inst_h[t] = 0
          /\ call_at - first_seen_h[t] >= AfterS

C9_ThreeAlertsInHalfAnHour ==
    /\ obs_attempts >= 1 => sent_h["web"] >= 1
    /\ now = DegradedMinutes => (sent_h["web"] = 3 /\ skipped["web"] >= 27)

\* C16: the i-th committed write, rollbacks included, carries the version
\* that follows the one before it, so two writers get distinct consecutive
\* versions and the row's version counts the writes; a step that commits
\* raises the row's version by exactly one, and a step that rejects an
\* invalid config leaves the row and the history as they were.
C16_EveryWriteIsOneVersion ==
    /\ [](\A i \in 1..Len(cfg_writes_h) : cfg_writes_h[i].version = SeedVersion + i)
    /\ [](cfg_row # None => cfg_row[1].version = SeedVersion + Len(cfg_writes_h))
    /\ [][(cfg_op'.op = "written" =>
               /\ cfg_row # None
               /\ cfg_row'[1].version = cfg_row[1].version + 1
               /\ cfg_op'.version = cfg_row'[1].version)
           /\ (cfg_op'.op = "invalid" => UNCHANGED <<cfg_row, cfg_bodies>>)]_vars

\* witness of C16: two writers have committed one after the other, one of
\* them a rollback, and the last request was an invalid config
C16_TwoWritersAndARejection ==
    /\ Len(cfg_writes_h) >= 2
    /\ cfg_writes_h[1].w # cfg_writes_h[2].w
    /\ \E i \in 1..Len(cfg_writes_h) : cfg_writes_h[i].kind = "rollback"
    /\ cfg_op.op = "invalid"

\* the writes were: A, then B, then a rollback to the version A got
RoundTripDone ==
    /\ Len(cfg_writes_h) = 3
    /\ cfg_writes_h[1].kind = "write" /\ cfg_writes_h[1].body = ConfigA
    /\ cfg_writes_h[2].kind = "write" /\ cfg_writes_h[2].body = ConfigB
    /\ cfg_writes_h[3].kind = "rollback" /\ cfg_writes_h[3].to = cfg_writes_h[1].version

\* two rollbacks to the same version wrote identical bodies
RollbackIdempotent ==
    \A i, j \in 1..Len(cfg_writes_h) :
        (/\ cfg_writes_h[i].kind = "rollback"
         /\ cfg_writes_h[j].kind = "rollback"
         /\ cfg_writes_h[i].to = cfg_writes_h[j].to)
            => cfg_writes_h[i].body = cfg_writes_h[j].body

\* C17 as stated: write A gives version 1, write B version 2, the rollback
\* to version 1 gives version 3 with body A and a read returns (A, 3);
\* rollbacks to the same version have identical bodies.
C17_RoundTripAsStated ==
    /\ RoundTripDone =>
          /\ cfg_writes_h[1].version = 1
          /\ cfg_writes_h[2].version = 2
          /\ cfg_writes_h[3].version = 3
          /\ cfg_writes_h[3].body = ConfigA
          /\ (cfg_op.op = "read" =>
                cfg_read = Some([data |-> Some([config |-> ConfigA, version |-> 3]), err |-> ""]))
    /\ RollbackIdempotent

\* C17, amended: on the row init_db seeds, write A gives the version after
\* the seed's, write B the next, the rollback to A's version the one after
\* with body A, and a read returns A with that version; rollbacks to the
\* same version have identical bodies.
C17_RoundTripAmended ==
    /\ RoundTripDone =>
          /\ cfg_writes_h[1].version = SeedVersion + 1
          /\ cfg_writes_h[2].version = SeedVersion + 2
          /\ cfg_writes_h[3].version = SeedVersion + 3
          /\ cfg_writes_h[3].body = ConfigA
          /\ (cfg_op.op = "read" =>
                cfg_read = Some([data |-> Some([config |-> ConfigA,
                                               version |-> SeedVersion + 3]),
                                 err |-> ""]))
    /\ RollbackIdempotent

\* witness of C17: the round trip was made and then read
C17_RoundTripRead ==
    /\ RoundTripDone
    /\ cfg_op.op = "read"
    /\ cfg_read # None
    /\ cfg_read[1].data = Some([config |-> ConfigA, version |-> SeedVersion + 3])

\* C18: after notify_main the bot's routing is what the refresh left (the
\* served config when the refresh got it) and the destinations are those
\* pick_destinations gives for that routing; when they are empty
\* handle_no_destination was called once, its counter went up by one and
\* the queue message was sent to no chat; when they are not empty it was
\* not called and observability's state is as it was.
C18_RefreshThenRoute ==
    /\ [](ntf_op = "main" =>
            /\ ntf_refresh_ok => runtime_routing = server_routing
            /\ ~ntf_refresh_ok => runtime_routing = ntf_before_h
            /\ ntf_dests = PickDestinations(ntf_items, runtime_routing.rules,
                                            runtime_routing.default_dest)
            /\ ntf_dests = <<>> => (ntf_nodest_calls = 1 /\ ntf_attempts = <<>>)
            /\ ntf_dests # <<>> => ntf_nodest_calls = 0)
    /\ [][ntf_op' = "main" =>
            IF ntf_dests' = <<>>
            THEN tickets_without_destination_total' = tickets_without_destination_total + 1
            ELSE UNCHANGED obsVars]_vars

\* witness of C18: the refresh brought a routing without destinations for
\* items the old routing had a destination for, and the handler was called
C18_RefreshedRoutingHasNoDestination ==
    /\ ntf_op = "main"
    /\ ntf_refresh_ok
    /\ PickDestinations(ntf_items, ntf_before_h.rules, ntf_before_h.default_dest) # <<>>
    /\ ntf_dests = <<>>
    /\ ntf_nodest_calls = 1
    /\ tickets_without_destination_total = 1

\* C19: after notify_main a send was attempted for every destination, in
\* the order routing gave, whatever the earlier sends did, and every
\* forbidden send was delegated to the forbidden-send handler.
C19_EveryDestinationAttempted ==
    ntf_op = "main" =>
        /\ Len(ntf_attempts) = Len(ntf_dests)
        /\ \A i \in DOMAIN ntf_attempts : ntf_attempts[i].dest = ntf_dests[i]
        /\ ntf_forbidden = SelectSeq(ntf_attempts, LAMBDA a : a.outcome = "forbidden")

\* the destinations of the rules of routing r that match the items
MatchedSet(items, r) ==
    {r.rules[i].dest : i \in {j \in DOMAIN r.rules : RouteRuleMatches(items, r.rules[j])}}

\* the first rule of routing r that matches the items and has destination d
FirstRule(items, r, d) ==
    CHOOSE i \in DOMAIN r.rules :
        /\ r.rules[i].dest = d /\ RouteRuleMatches(items, r.rules[i])
        /\ \A j \in 1..(i - 1) :
              ~(r.rules[j].dest = d /\ RouteRuleMatches(items, r.rules[j]))

\* C20: the destinations notify_main got from pick_destinations are, when
\* some rule matches, exactly the matching rules' destinations, each once,
\* ordered as their first matching rules are; the default destination alone
\* when no rule matches and a default is configured; none when no rule
\* matches and there is no default.
C20_PickDestinations ==
    ntf_op = "main" =>
        /\ MatchedSet(ntf_items, runtime_routing) # {} =>
              /\ SeqRange(ntf_dests) = MatchedSet(ntf_items, runtime_routing)
              /\ \A a, b \in DOMAIN ntf_dests :
                    a < b => FirstRule(ntf_items, runtime_routing, ntf_dests[a])
                                < FirstRule(ntf_items, runtime_routing, ntf_dests[b])
        /\ (MatchedSet(ntf_items, runtime_routing) = {}
                /\ runtime_routing.default_dest # None) =>
              ntf_dests = <<runtime_routing.default_dest[1]>>
        /\ (MatchedSet(ntf_items, runtime_routing) = {}
                /\ runtime_routing.default_dest = None) =>
              ntf_dests = <<>>

\* witness of C20: three rules matched, two of them with one destination,
\* and the destinations came out in rule order, each once
C20_MatchedInRuleOrderOnce ==
    /\ ntf_op = "main"
    /\ Cardinality({j \in DOMAIN runtime_routing.rules :
                        RouteRuleMatches(ntf_items, runtime_routing.rules[j])}) = 3
    /\ ntf_dests = <<Dest(20), Dest(10)>>

\* the valid ids among the items: the integers above 0 that int() makes of
\* their Id values
ValidIdsOf(items) ==
    {n \in {ToInt(items[i].Id)[1] : i \in {j \in DOMAIN items : ToInt(items[j].Id) # None}} :
        n > 0}

\* items and others hold the same item values the same number of times
IsPermutation(items, others) ==
    /\ Len(items) = Len(others)
    /\ \A x \in SeqRange(items) \cup SeqRange(others) :
          Cardinality({i \in DOMAIN items : items[i] = x})
            = Cardinality({i \in DOMAIN others : others[i] = x})

\* C21: two item lists get the same hash exactly when their sets of valid
\* ids are equal, and then the same id list too, so a permutation, a
\* duplicate or an item with an invalid id changes neither; the id list is
\* the valid ids in ascending order, each once.
C21_SnapshotIsOfTheIdSet ==
    snap_op = "pair" =>
        /\ (snap_res[1][1] = snap_res[2][1])
              <=> (ValidIdsOf(snap_items[1]) = ValidIdsOf(snap_items[2]))
        /\ (ValidIdsOf(snap_items[1]) = ValidIdsOf(snap_items[2]))
              => snap_res[1][2] = snap_res[2][2]
        /\ IsPermutation(snap_items[1], snap_items[2]) => snap_res[1] = snap_res[2]
        /\ \A k \in 1..2 :
              /\ SeqRange(snap_res[k][2]) = ValidIdsOf(snap_items[k])
              /\ \A i, j \in DOMAIN snap_res[k][2] :
                    i < j => snap_res[k][2][i] < snap_res[k][2][j]

\* witness of C21: the other list is the items in another order with a
\* different spelling of an id, and the snapshots are equal
C21_PermutedSameSnapshot ==
    /\ snap_op = "pair"
    /\ Len(snap_res[1][2]) = 2
    /\ Len(snap_items[1]) = 2 /\ Len(snap_items[2]) = 2
    /\ snap_items[1] # snap_items[2]
    /\ snap_items[1][1].Id = snap_items[2][2].Id
    /\ snap_res[1] = snap_res[2]

\* C22: a process call leaves every entry of seen_at it finds as it is and
\* gives the time of the call to the entries it adds, so the entry of a
\* ticket that stays in the items keeps the time of the first call.
C22_SeenAtWrittenOnce ==
    [][esc_op' = "process" =>
          \A k \in DOMAIN seen_at' :
              seen_at'[k] = IF k \in DOMAIN seen_at THEN seen_at[k] ELSE now]_vars

\* witness of C22: a call some time after the first one found a ticket that
\* stayed and kept its entry, and added an entry for a ticket that is new
C22_StayedAndKeptFirstTime ==
    /\ esc_op = "process"
    /\ \E t \in call_ids : seen_at[StrOfInt(t)] < call_at
    /\ \E t \in call_ids : seen_at[StrOfInt(t)] = call_at

\* the outcomes of a check_web call
WebOutcomes ==
    {"web_healthy", "web_skipped", "web_no_admin_dest", "web_type_error",
     "web_sent", "web_send_failed"}

\* C23: a check_web that ended without alert path stopped at a round with
\* both probes ok; one that took the alert path with the window open and an
\* admin destination configured handed one alert to the chat.
C23_FailingRoundsAlert ==
    /\ obs_op = "web_healthy" =>
          (web_cache # None /\ web_cache[1][2] /\ web_cache[1][3])
    /\ (obs_op \in WebOutcomes \ {"web_healthy", "web_skipped", "web_no_admin_dest"}) =>
          (obs_op \in {"web_sent", "web_send_failed"} /\ sent_h["web"] >= 1)

\* C24: a check_redis whose ping() raised ended in the alert path: an alert
\* handed to the chat, or an attempt skipped by the window or for want of
\* an admin destination.
C24_RaisingPingAlerts ==
    obs_op \in {"redis_raises_blank", "redis_skipped", "redis_no_admin_dest",
                "redis_sent", "redis_send_failed"}
        => obs_op \in {"redis_skipped", "redis_no_admin_dest", "redis_sent",
                       "redis_send_failed"}

\* <PREFIX>_CHAT_ID spells a chat id
Configured(env) == env.chat_id.kind = "numstr"

\* C25: whenever an alert is handed to the chat, the dedicated admin
\* destination or the general one is configured, and the alert goes to the
\* dedicated one when that is configured and to the general one otherwise.
C25_AdminDestinationPreferred ==
    [][sent_h' # sent_h =>
          /\ Configured(env_admin_alert) \/ Configured(env_alert)
          /\ alert_dest_h' # None
          /\ alert_dest_h'[1].chat_id =
                IF Configured(env_admin_alert) THEN env_admin_alert.chat_id.v
                ELSE env_alert.chat_id.v]_vars

\* witness of C25: ADMIN_ALERT_CHAT_ID is set to something that is no chat
\* id and the alert went to the general destination
C25_FellBackToGeneral ==
    /\ env_admin_alert = EnvBad
    /\ obs_op = "redis_sent"
    /\ alert_dest_h = Some([chat_id |-> 600, thread_id |-> None])

\* C26: while no admin destination is configured no alert path writes a
\* last_*_alert_at or raises a skipped counter.
C26_WindowKeptWithoutDestination ==
    ~admin_dest => \A k \in Kinds : last_alert_at[k] = None /\ skipped[k] = 0

\* STRICT_READINESS is 1, spaces around it aside
StrictIsOne(env) ==
    /\ env.STRICT_READINESS # None
    /\ \E i \in DOMAIN env.STRICT_READINESS[1] :
          /\ env.STRICT_READINESS[1][i] = "1"
          /\ \A j \in DOMAIN env.STRICT_READINESS[1] :
                j # i => env.STRICT_READINESS[1][j] = " "

\* the variable is set to a value that is not blank
NonBlank(value) == value # None /\ \E i \in DOMAIN value[1] : value[1][i] # " "

\* C27: /ready answers 200 with status "ok" when all its checks pass and
\* 503 with status "not_ready" otherwise; without STRICT_READINESS = 1 it
\* answers 200 whatever the variables are, and with it it answers 200
\* exactly when ENVIRONMENT is staging, prod or local and the two
\* SERVICEDESK variables are set and not blank.
C27_ReadyIffChecksPass ==
    rdy_op = "ready" =>
        /\ rdy_resp[1].code \in {200, 503}
        /\ rdy_resp[1].code = 200 <=> rdy_resp[1].status = "ok"
        /\ rdy_resp[1].code = 503 <=> rdy_resp[1].status = "not_ready"
        /\ rdy_resp[1].code = 200
              <=> \A i \in DOMAIN rdy_resp[1].checks : rdy_resp[1].checks[i].ok
        /\ ~StrictIsOne(rdy_env) => rdy_resp[1].code = 200
        /\ StrictIsOne(rdy_env) =>
              (rdy_resp[1].code = 200
                 <=> /\ rdy_env.ENVIRONMENT \in {Some("staging"), Some("prod"), Some("local")}
                     /\ NonBlank(rdy_env.SERVICEDESK_BASE_URL)
                     /\ NonBlank(rdy_env.SERVICEDESK_API_TOKEN))

\* witness of C27: strict mode, an allowed environment, a blank token: 503
C27_StrictBlankTokenNotReady ==
    /\ rdy_op = "ready"
    /\ rdy_env.STRICT_READINESS = Some(<<" ", "1">>)
    /\ rdy_env.ENVIRONMENT = Some("prod")
    /\ rdy_env.SERVICEDESK_BASE_URL = Some(<<"x">>)
    /\ rdy_env.SERVICEDESK_API_TOKEN = Some(<<" ">>)
    /\ rdy_resp[1].code = 503

\* C28: read_config never raises: whatever the row holds and whether or not
\* the database fails, it returns the parsed config with the row's version
\* and no error, or no config and an error text.
C28_ReadConfigNeverRaises ==
    /\ cfg_op.op # "read_raised"
    /\ cfg_op.op = "read" =>
          /\ cfg_read # None
          /\ \/ /\ cfg_read[1].data # None
                /\ cfg_read[1].err = ""
                /\ cfg_row # None
                /\ cfg_read[1].data[1].version = cfg_row[1].version
             \/ /\ cfg_read[1].data = None
                /\ cfg_read[1].err # ""

\* C29: a probe round returns, for /health and for /ready, a result with
\* ok exactly when a status in 200..299 was received, the received status
\* when there was a response, and no status and an error text when there
\* was none; WebGuard.decide comes to a decision on every returned pair.
C29_GetNeverRaises ==
    wc_ret # None =>
        /\ wc_ret[1].probed =>
              \A i \in {1, 2} :
                 \E res \in {IF i = 1 THEN wc_ret[1].health ELSE wc_ret[1].ready} :
                    /\ res.ok <=> /\ wc_probe_h[1][i].kind = "response"
                                  /\ wc_probe_h[1][i].status \in 200..299
                    /\ wc_probe_h[1][i].kind = "response"
                          => res.status = Some(wc_probe_h[1][i].status)
                    /\ wc_probe_h[1][i].kind # "response"
                          => res.status = None /\ res.error # None
        /\ ~wc_ret[1].force =>
              /\ wc_ret[1].decision # None
              /\ wc_ret[1].decision[1].allowed <=> wc_ret[1].health.ok /\ wc_ret[1].ready.ok

\* witness of C29: a round with a 2xx answer and a timeout was returned and
\* decided on
C29_TimeoutReturned ==
    /\ wc_ret # None
    /\ wc_ret[1].probed
    /\ wc_probe_h = Some(<<Response(200), ProbeTimeout>>)
    /\ wc_ret[1].health.ok
    /\ wc_ret[1].ready = [ok |-> FALSE, status |-> None, error |-> Some("")]
    /\ wc_ret[1].decision = Some([allowed |-> FALSE, reason |-> "WEB_NOT_READY"])

\* C30: a call without force that finds a cache entry no older than
\* cache_ttl_s returns that entry's pair without probing; a call with force
\* probes and leaves its pair in the cache; at most one caller is probing at
\* any time; calls without force that arrive together on an empty cache
\* start one probe round between them.
C30_CacheAndLock ==
    /\ Cardinality({c \in Callers : wc_call[c].pc = "probing"}) <= 1
    /\ wc_ret # None =>
          /\ (/\ ~wc_ret[1].force
              /\ wc_ret[1].seen # None
              /\ wc_ret[1].started - wc_ret[1].seen[1][1] <= CacheTtlS)
                => /\ ~wc_ret[1].probed
                   /\ wc_ret[1].health = wc_ret[1].seen[1][2]
                   /\ wc_ret[1].ready = wc_ret[1].seen[1][3]
          /\ wc_ret[1].force
                => /\ wc_ret[1].probed
                   /\ wc_cache = Some(<<wc_ret[1].started, wc_ret[1].health, wc_ret[1].ready>>)
    /\ (wc_h.together /\ wc_h.calls >= 1) => wc_h.rounds = 1

\* witness of C30: two calls without force arrived together on the empty
\* cache; the second waited for the lock and was given the first's pair
C30_WaiterGotCachedPair ==
    /\ wc_h.together
    /\ wc_h.calls = 2
    /\ wc_h.rounds = 1
    /\ wc_ret # None
    /\ wc_ret[1].waited
    /\ ~wc_ret[1].probed
    /\ wc_cache = Some(<<wc_ret[1].started, wc_ret[1].health, wc_ret[1].ready>>)

\* C31: decide allows exactly when health and ready are both ok; a failing
\* health gives WEB_UNAVAILABLE whatever ready is, a failing ready alone
\* WEB_NOT_READY; require_web returns true and answers nothing exactly when
\* allowed, and otherwise answers once and returns false.
C31_GuardDecision ==
    call_op = "require_web" =>
        /\ call_ret[1].decision.allowed <=> call_args.health.ok /\ call_args.ready.ok
        /\ ~call_args.health.ok => call_ret[1].decision.reason = "WEB_UNAVAILABLE"
        /\ (call_args.health.ok /\ ~call_args.ready.ok)
              => call_ret[1].decision.reason = "WEB_NOT_READY"
        /\ call_ret[1].ret <=> call_ret[1].decision.allowed
        /\ call_ret[1].ret <=> call_ret[1].answers = <<>>
        /\ ~call_ret[1].ret => Len(call_ret[1].answers) = 1

\* witness of C31: health and ready both failed, for a named command
C31_BothFailedUnavailable ==
    /\ call_op = "require_web"
    /\ ~call_args.health.ok /\ ~call_args.ready.ok
    /\ call_args.friendly_name = Some("/needs_web")
    /\ call_ret[1].decision.reason = "WEB_UNAVAILABLE"
    /\ ~call_ret[1].ret
    /\ Len(call_ret[1].answers) = 1

\* the id criteria of a filter and the ticket field each is bound to
IdCriteria ==
    {<<"service_ids", "ServiceId">>, <<"customer_ids", "CustomerId">>,
     <<"creator_ids", "CreatorId">>, <<"creator_company_ids", "CreatorCompanyId">>}

\* the ticket has an integer under the field and it is in the id set
IntegerFieldIn(item, field, ids) ==
    /\ field \in DOMAIN item
    /\ item[field].kind \in {"int", "numstr"}
    /\ item[field].v \in ids

\* a keyword of the filter is contained in the ticket's normalized Name
KeywordInName(item, flt) ==
    /\ "Name" \in DOMAIN item
    /\ \E k \in flt.keywords : Contains(Norm(item.Name), k)

\* C32: match_escalation_filter is true for a filter without criteria; for
\* one with criteria it is true exactly when a keyword is contained in the
\* normalized Name or the ticket's integer under a bound field is in that
\* criterion's id set; a missing or non-integer value matches no id criterion.
C32_FilterMatchesAnyCriterion ==
    call_op = "match_escalation_filter" =>
        /\ (call_args.flt = EmptyFilter) => call_ret[1]
        /\ (call_args.flt # EmptyFilter) =>
              (call_ret[1] <=>
                 \/ KeywordInName(call_args.item, call_args.flt)
                 \/ \E c \in IdCriteria :
                       IntegerFieldIn(call_args.item, c[2], call_args.flt[c[1]]))
        /\ (/\ call_args.flt.keywords = {}
            /\ \A c \in IdCriteria :
                  call_args.flt[c[1]] # {} =>
                     GetField(call_args.item, c[2]).kind \in {"none", "badstr"})
              => (call_ret[1] <=> call_args.flt = EmptyFilter)

\* witness of C32: the Name has none of the keywords, the service id given
\* as text is in the id set
C32_MatchedByServiceIdOnly ==
    /\ call_op = "match_escalation_filter"
    /\ call_args.flt.keywords # {}
    /\ ~KeywordInName(call_args.item, call_args.flt)
    /\ GetField(call_args.item, "ServiceId") = PyNumStr(101)
    /\ call_ret = Some(TRUE)

\* C33: a process call returns only tickets of its items that have dwelt at
\* least after_s, were not marked before the call and match one of the
\* rules, and it marks only the tickets it returns; without rules nothing
\* is ever returned or marked.
C33_OnlyDueMatchingUnmarked ==
    /\ [](rules = <<>> => (ret_items = {} /\ escalated_at = <<>>))
    /\ [][(esc_op' = "process" /\ now' = now) =>
            /\ ret_ids' = {it.Id.v : it \in ret_items'}
            /\ (\A k \in (DOMAIN escalated_at') \ (DOMAIN escalated_at) : k.v \in ret_ids')
            /\ (\A it \in ret_items' :
                  /\ it.Id.v \in call_ids'
                  /\ StrOfInt(it.Id.v) \in DOMAIN seen_at'
                  /\ now - seen_at'[StrOfInt(it.Id.v)] >= AfterS
                  /\ StrOfInt(it.Id.v) \notin DOMAIN escalated_at
                  /\ StrOfInt(it.Id.v) \in DOMAIN escalated_at'
                  /\ \E i \in DOMAIN rules : MatchEscalationFilter(it, rules[i].flt))
         ]_vars

\* witness of C33: of two tickets with the same id the later one, which the
\* keyword rule matches, was returned and marked
C33_ReturnedTheMatchingTicket ==
    /\ esc_op = "process"
    /\ Len(rules) = 2
    /\ \E it \in ret_items :
          /\ it.Name = NameARenamed
          /\ escalated_at[StrOfInt(it.Id.v)] = now
          /\ now - seen_at[StrOfInt(it.Id.v)] >= AfterS

\* C37: every ticket a process call marks in escalated_at is in that call's
\* return value, also when persisting the state raises.
C37_MarkedOnlyIfReported ==
    [][(esc_op' \in {"process", "process_raised"} /\ now' = now) =>
          \A k \in (DOMAIN escalated_at') \ (DOMAIN escalated_at) : k.v \in ret_ids'
      ]_vars

\* C34: the interval the poller sleeps lies between base_interval_s and
\* max_backoff_s, whatever iterations succeeded or failed.
C34_IntervalWithinBounds ==
    BaseIntervalS <= interval_s /\ interval_s <= MaxBackoffS

\* witness of C34: failures in a row brought the interval to the cap, which
\* the next doubling would have passed
C34_IntervalAtCap ==
    /\ pc = "sleep"
    /\ interval_s = MaxBackoffS
    /\ prev_interval * 2 > MaxBackoffS

\* C35: the sent-snapshot fields are all unset or all set; when set, the
\* count is the length of the id list, the ids are positive and strictly
\* ascending and the snapshot is the hash of the id list; failures <= runs
\* and consecutive_failures <= failures.
C35_PollerStateConsistent ==
    /\ \/ /\ last_sent_snapshot = None /\ last_sent_ids = None
          /\ last_sent_count = None /\ last_sent_at = None
       \/ /\ last_sent_snapshot # None /\ last_sent_ids # None
          /\ last_sent_count # None /\ last_sent_at # None
          /\ last_sent_count[1] = Len(last_sent_ids[1])
          /\ \A i \in DOMAIN last_sent_ids[1] : last_sent_ids[1][i] > 0
          /\ \A i, j \in DOMAIN last_sent_ids[1] :
                i < j => last_sent_ids[1][i] < last_sent_ids[1][j]
          /\ last_sent_snapshot[1] = Sha256(JsonDumps(last_sent_ids[1]))
    /\ failures <= runs
    /\ consecutive_failures <= failures

\* witness of C35: a snapshot of two ids is recorded, earlier failures are
\* counted and the run of failures is over
C35_SnapshotOfTwoAfterFailure ==
    /\ last_sent_count = Some(2)
    /\ failures > 0
    /\ consecutive_failures = 0

\* C36: the message the poller sent lists the tickets in ascending Id order
\* and lists exactly the recorded snapshot: as many tickets as
\* last_sent_count and the ids of last_sent_ids.
C36_MessageIsTheSnapshot ==
    iter_result = "ok_sent" =>
        /\ notify_text # None
        /\ \A i, j \in DOMAIN notify_text[1].lines :
              i < j => notify_text[1].lines[i][1] <= notify_text[1].lines[j][1]
        /\ notify_text[1].count = last_sent_count[1]
        /\ Len(notify_text[1].lines) = last_sent_count[1]
        /\ [i \in DOMAIN notify_text[1].lines |-> notify_text[1].lines[i][1]] = last_sent_ids[1]

C40_EmptyIffEqual ==
    call_op = "diff_dicts" =>
        /\ (call_ret = <<>>) <=> PyEq(call_args[1], call_args[2])
        /\ \A i \in DOMAIN call_ret : ~PyEq(call_ret[i].from, call_ret[i].to)

\* the half of C40 the code keeps: equal configs give no change, and every
\* change reported is one
C40_EqualGivesEmpty ==
    call_op = "diff_dicts" =>
        /\ PyEq(call_args[1], call_args[2]) => call_ret = <<>>
        /\ \A i \in DOMAIN call_ret : ~PyEq(call_ret[i].from, call_ret[i].to)

\* where C40 fails: a key holding None is added and no change is returned
C40_NoneKeyAddedUnreported ==
    /\ call_op = "diff_dicts"
    /\ call_args[1] = JsonDict(<<>>)
    /\ call_args[2] = JsonDict([x |-> JsonNone])
    /\ call_ret = <<>>

====
